---- MODULE Spec2Model ----
(***************************************************************************)
(* Change detection and delivery pipeline of the LotSearch monitoring bot. *)
(*                                                                         *)
(*   Spec         one Monitor checking tracked pages one at a time         *)
(*                (services/monitor.py, Monitor._check_url) against the    *)
(*                item history (services/storage.py, ItemRepository).      *)
(*   SpecCancel   the same, remembering what a cancelled check delivered.  *)
(*   SpecDeliver  one Monitor._deliver_notification call against every     *)
(*                sequence of transport responses.                         *)
(*   SpecDeliverFair  SpecDeliver with the event loop making progress.     *)
(*   SpecLock     two concurrent Monitor._send_notification calls (the     *)
(*                startup sweep and a scheduled sweep) and the per-chat    *)
(*                locks.                                                   *)
(***************************************************************************)
EXTENDS Integers, Sequences, FiniteSets, TLC

(***************************************************************************)
(* Bounds of the model.                                                    *)
(***************************************************************************)
\* longest listing list one scrape returns
MaxItems == 2
\* largest retry_after (seconds) the transport signals
MaxRetryAfter == 2
\* longest caption, in tokens
MaxCaptionLen == 2

(***************************************************************************)
(* Universe of values.                                                     *)
(***************************************************************************)
\* tracked page URLs (the source_url column)
Pages == {"p1", "p2"}
\* listing URLs (the url column, Item.url)
Lots == {"a", "b", "c"}
\* no row with that url in the items table
NoRow == "none"
\* no page is being checked
NoPage == "nopage"

\* settings.ADMIN_CHAT_IDS, in list order
ADMIN_CHAT_IDS == <<1, 2>>

\* every listing list a scrape can return: cards in page order, a card's
\* link may repeat (parse_items appends one Item per card, no deduplication)
RECURSIVE SeqsUpTo(_, _)
SeqsUpTo(S, n) ==
    IF n = 0 THEN {<<>>}
    ELSE LET shorter == SeqsUpTo(S, n - 1)
         IN  shorter \cup {Append(s, x) : s \in {t \in shorter : Len(t) = n - 1}, x \in S}

Range(s) == {s[i] : i \in 1..Len(s)}

(***************************************************************************)
(* models.Item.  The attributes a listing object carries.  storage.py:151  *)
(* and monitor.py:56-57 read description_table and description_text from   *)
(* every Item and parser.py:142-150 passes them to the constructor;        *)
(* the dataclass in models/item.py declares only the first five.  The two  *)
(* description attributes are taken from the data model of the             *)
(* specification (Listing: optional description_table, description_text).  *)
(***************************************************************************)
ItemFields ==
    {"url", "title", "price", "img_url", "image_urls",
     "description_table", "description_text"}

\* reading attribute f of an Item succeeds (no AttributeError)
HasAttr(f) == f \in ItemFields

(***************************************************************************)
(* ItemRepository: the items table, one row per url (url TEXT UNIQUE),     *)
(* rows[u] is the source_url of the row with url u.                        *)
(***************************************************************************)
\* get_known_urls(source_url): SELECT url FROM items WHERE source_url = ?
get_known_urls(r, source_url) == {u \in Lots : r[u] = source_url}

\* building the records reads item.description_table of every item
save_items_raises(items) ==
    items # <<>> /\ ~(HasAttr("description_table") /\ HasAttr("description_text"))

save_items_ignore_conflict(r, items, source_url) ==
    IF items = <<>> \/ save_items_raises(items) THEN r
    ELSE [u \in Lots |-> IF u \in Range(items) /\ r[u] = NoRow THEN source_url ELSE r[u]]

\* save_items(items, source_url): INSERT ... ON CONFLICT(url) DO UPDATE SET
\* ..., source_url = excluded.source_url; nothing is written for no records
save_items(r, items, source_url) ==
    IF items = <<>> \/ save_items_raises(items) THEN r
    ELSE [u \in Lots |-> IF u \in Range(items) THEN source_url ELSE r[u]]

(***************************************************************************)
(* Monitor._check_url                                                      *)
(***************************************************************************)
NewItemsUnfiltered(items, known) == items

\* new_items = [item for item in current_items if item.url not in known_urls]
RECURSIVE NewItems(_, _)
NewItems(items, known) ==
    IF items = <<>> THEN <<>>
    ELSE IF Head(items) \in known THEN NewItems(Tail(items), known)
         ELSE <<Head(items)>> \o NewItems(Tail(items), known)

\* _build_notification_caption reads item.description_table/_text
caption_raises == ~(HasAttr("description_table") /\ HasAttr("description_text"))

\* what _deliver_notification ends in for one recipient: the message went
\* out, the recipient was skipped (unreachable), or delivery was given up
\* with a critical alert
DeliveryOutcomes == {"sent", "skipped", "alerted"}

VARIABLES
    rows,            \* the items table
    pc,              \* where _check_url is suspended
    url,             \* its url argument
    last_page_load_failed,  \* parser.last_page_load_failed
    gallery_load_errors,    \* len(parser.gallery_load_errors)
    current_items,   \* the scraped listing list (listing urls, page order)
    known_urls,      \* the known_urls local
    new_items,       \* the new_items local
    item_idx,        \* position of the for loop over new_items
    chat_idx,        \* position of the for loop over ADMIN_CHAT_IDS
    ret,             \* how the last _check_url call ended
    notified,        \* history: listings passed to _send_notification in this call
    delivered,       \* history: <<listing, chat>> messages that went out in this call
    page_alerts,     \* history: the send_critical_alert calls _check_url itself
                     \* made in this call
    rows0,           \* history: the items table when this call started
    prev             \* history: what the call before delivered, when it was
                     \* cancelled and this call checks the same page and
                     \* scrapes the same listing list

mvars == <<rows, pc, url, last_page_load_failed, gallery_load_errors,
           current_items, known_urls, new_items, item_idx, chat_idx, ret,
           notified, delivered, page_alerts, rows0, prev>>

\* one _deliver_notification(chat_id, item, media_urls, caption) call
VARIABLES
    d_pc,            \* where the call is: "loop", "sleep", "done"
    chat_id,         \* its chat_id argument
    item,            \* its item argument (the listing, by its url)
    caption0,        \* its caption argument
    caption,         \* the caption local (reassigned by the fallback)
    parse_mode,      \* the parse_mode local: "HTML" or "None"
    fallback_applied,
    attempts,
    sleeping,        \* seconds of the asyncio.sleep the last attempt led to
    sends,           \* history: the _send_to_chat calls and their outcomes
    d_alerts         \* history: the send_critical_alert calls made through
                     \* _alert_notification_failure

dvars == <<d_pc, chat_id, item, caption0, caption, parse_mode, fallback_applied,
           attempts, sleeping, sends, d_alerts>>

\* two tasks inside _send_notification
VARIABLES
    l_pc,            \* per task: where it is
    l_chat,          \* per task: position of the loop over ADMIN_CHAT_IDS
    l_attempts,      \* per task: send attempts of the delivery in progress
    holder,          \* per chat: the task that holds _chat_locks[chat]
    waiters,         \* per chat: asyncio.Lock._waiters, tasks in FIFO order
    acquired,        \* history, per chat: tasks in the order they got the lock
    arrived          \* history, per chat: tasks in the order of their sends

lvars == <<l_pc, l_chat, l_attempts, holder, waiters, acquired, arrived>>

\* one _send_notification(item, ...) call, its deliveries modelled in full
VARIABLES
    n_pc,            \* where the call is: "deliver", "pause", "returned"
    n_idx,           \* position of the loop over ADMIN_CHAT_IDS
    n_log            \* history: the deliveries that have returned, in order

nvars == <<n_pc, n_idx, n_log>>

\* one send_critical_alert(bot, admin_chat_ids, message, tag_user) call
VARIABLES
    a_pc,            \* where the call is: "start", "send", "returned", "raised"
    a_to,            \* its admin_chat_ids argument
    a_tag,           \* its tag_user argument
    a_idx,           \* position of the loop over admin_chat_ids
    a_sent           \* history: the bot.send_message calls and their outcomes

avars == <<a_pc, a_to, a_tag, a_idx, a_sent>>

\* the media of one listing: Item(...), the media_urls of
\* _send_notification and one _send_to_chat call
VARIABLES
    p_pc,            \* "args", "item", "media", "sent"
    p_args,          \* the img_url and image_urls passed to Item(...)
    p_item,          \* the img_url and image_urls of the Item
    p_media,         \* the media_urls local of _send_notification
    p_calls          \* history: the transport calls of the _send_to_chat call

pvars == <<p_pc, p_args, p_item, p_media, p_calls>>

\* ItemRepository over time: the items table row by row and the calls made
VARIABLES
    items_table,     \* the rows of the items table
    sqlite_sequence, \* the largest rowid the AUTOINCREMENT key has handed out
    now,             \* the clock read by datetime.now(UTC)
    s_last,          \* history: the last call of the repository
    s_before         \* history: the rows before that call

svars == <<items_table, sqlite_sequence, now, s_last, s_before>>

\* Item objects compared, hashed and collected in a set
VARIABLES
    i_hash,          \* hash() of the url strings in this process
    i_set,           \* the elements of a set of Item objects
    i_last,          \* history: the Item last passed to set.add, if any
    i_before         \* history: the elements before that call

ivars == <<i_hash, i_set, i_last, i_before>>

\* TrackedPageRepository: the tracked_pages table and the seeded flag
VARIABLES
    t_pages,         \* the rows of tracked_pages, in list_pages order
    t_seeded,        \* app_meta has the key tracked_pages_seeded
    t_seq,           \* the largest id the AUTOINCREMENT key has handed out
    t_last,          \* history: the last call and how it ended
    t_before,        \* history: the rows before that call
    t_seedings       \* history: the constructions that inserted the defaults

tvars == <<t_pages, t_seeded, t_seq, t_last, t_before, t_seedings>>

\* AppSettingsRepository, the app_meta rows it keeps and the live settings
VARIABLES
    c_meta,          \* app_meta: per settings key <<>> or <<the value written>>
    c_extras,        \* app_meta admin_chat_ids: the extra admins, in order
    c_live,          \* settings.CHECK_INTERVAL_MINUTES, REQUEST_TIMEOUT, ...
    c_live_admins,   \* settings.ADMIN_CHAT_IDS
    c_default_interval,  \* self._default_interval
    c_base_admin_ids,    \* self._base_admin_ids
    c_env_admins,    \* history: ADMIN_CHAT_IDS of the environment at start
    c_last,          \* history: the last call and how it ended
    c_before         \* history: app_meta and the live settings before it

cvars == <<c_meta, c_extras, c_live, c_live_admins, c_default_interval,
           c_base_admin_ids, c_env_admins, c_last, c_before>>

\* Parser: the rate limit, the requests and the error state
VARIABLES
    f_clock,         \* time.time()
    f_pc,            \* where each fetching task is
    f_kind,          \* what it fetches: a catalogue page or a lot page
    f_domain,        \* urlparse(url).netloc of its request
    f_wake,          \* when its asyncio.sleep in _apply_rate_limit ends
    f_lock,          \* self._rate_limit_lock: <<>> or its holder
    f_last_request_time,  \* self._last_request_time
    f_last_error,    \* self.last_error: <<>> for None
    f_last_page_load_failed,  \* self.last_page_load_failed
    f_cards,         \* cards of the page a task has still to load
    f_disturbed,     \* history: another call recorded an error during this one
    f_started,       \* history: when the last request to a domain started
    f_pair,          \* history: the time between the last two requests to one domain
    f_result         \* history: the get_page_content call that ended last

fvars == <<f_clock, f_pc, f_kind, f_domain, f_wake, f_lock, f_last_request_time,
           f_last_error, f_last_page_load_failed, f_cards, f_disturbed,
           f_started, f_pair, f_result>>

\* Monitor.check_new_items: the sweeps over the tracked pages
VARIABLES
    w_table,         \* the tracked_pages table, in creation order
    w_rows,          \* the items table: the source_url of the row of a url
    w_failed,        \* self._failed_pages: timestamps per page url, 0: no entry
    w_flag,          \* self.parser.last_page_load_failed
    w_error,         \* self.parser.last_error
    w_alert,         \* per task: the page-load alert of its check, once composed
    w_pc,            \* where the sweep of a task is
    w_pages,         \* its pages local
    w_i,             \* position of its loop over pages
    w_items,         \* current_items of its _check_url call
    w_new,           \* new_items of the call still to be notified
    w_sent,          \* history: listings the call has notified
    w_own,           \* history: the fetch of the call failed
    w_start,         \* history: the tracked pages when the sweep started
    w_checked,       \* history: the urls the sweep has called _check_url with
    w_seen,          \* history: listings seeded or notified per page url
    w_fresh,         \* history: urls update_sort gave a page, not yet checked
    w_resent,        \* history: listings /resend has sent
    w_note,          \* history: the notification emitted last
    w_last           \* history: the _check_url call that ended last

wvars == <<w_table, w_rows, w_failed, w_flag, w_error, w_alert, w_pc, w_pages, w_i, w_items, w_new,
           w_sent, w_own, w_start, w_checked, w_seen, w_fresh, w_resent, w_note,
           w_last>>

\* the repositories of tracked pages and settings, the fetcher, the sweeps
yvars == <<tvars, cvars, fvars, wvars>>

\* everything but the sweeps
not_wvars == <<mvars, dvars, lvars, nvars, avars, pvars, svars, ivars, tvars,
               cvars, fvars>>

\* everything but the fetcher
not_fvars == <<mvars, dvars, lvars, nvars, avars, pvars, svars, ivars, tvars,
               cvars, wvars>>

\* everything but the tracked pages
not_tvars == <<mvars, dvars, lvars, nvars, avars, pvars, svars, ivars, cvars,
               fvars, wvars>>

\* everything but the settings
not_cvars == <<mvars, dvars, lvars, nvars, avars, pvars, svars, ivars, tvars,
               fvars, wvars>>

\* the parts of the program the later sections add
xvars == <<nvars, avars, pvars, svars, ivars, yvars>>

vars == <<mvars, dvars, lvars, xvars>>

\* no listing
NoItem == "noitem"

\* no _deliver_notification call is modelled
DeliverIdle ==
    /\ d_pc = "idle"
    /\ chat_id = 0
    /\ item = NoItem
    /\ caption0 = <<>>
    /\ caption = <<>>
    /\ parse_mode = "HTML"
    /\ fallback_applied = FALSE
    /\ attempts = 0
    /\ sleeping = 0
    /\ sends = <<>>
    /\ d_alerts = <<>>

\* the startup sweep and a sweep fired by the scheduler
Tasks == {"startup", "scheduled"}
NoTask == "none"

\* Monitor.__init__: self._chat_locks = {}; no task is in _send_notification
LockIdle ==
    /\ l_pc = [t \in Tasks |-> "idle"]
    /\ l_chat = [t \in Tasks |-> 0]
    /\ l_attempts = [t \in Tasks |-> 0]
    /\ holder = [c \in Range(ADMIN_CHAT_IDS) |-> NoTask]
    /\ waiters = [c \in Range(ADMIN_CHAT_IDS) |-> <<>>]
    /\ acquired = [c \in Range(ADMIN_CHAT_IDS) |-> <<>>]
    /\ arrived = [c \in Range(ADMIN_CHAT_IDS) |-> <<>>]

\* no _send_notification call is modelled with its deliveries
NotifyIdle ==
    /\ n_pc = "idle"
    /\ n_idx = 0
    /\ n_log = <<>>

\* tag_user is None
NoTag == "notag"

\* no send_critical_alert call is modelled
AlertIdle ==
    /\ a_pc = "idle"
    /\ a_to = <<>>
    /\ a_tag = NoTag
    /\ a_idx = 0
    /\ a_sent = <<>>

\* an Item without images
NoImages == [img_url |-> 0, image_urls |-> <<>>]

\* no listing media is modelled
MediaIdle ==
    /\ p_pc = "idle"
    /\ p_args = NoImages
    /\ p_item = NoImages
    /\ p_media = <<>>
    /\ p_calls = <<>>

\* no call of the repository
NoCall == [op |-> "none", items |-> <<>>, source_url |-> NoPage]

\* the items table is not modelled row by row
StoreIdle ==
    /\ items_table = {}
    /\ sqlite_sequence = 0
    /\ now = 0
    /\ s_last = NoCall
    /\ s_before = {}

\* no Item objects are compared
ItemIdle ==
    /\ i_hash = <<>>
    /\ i_set = {}
    /\ i_last = <<>>
    /\ i_before = {}

\* no call of the tracked page repository
NoPageCall == [op |-> "none", outcome |-> "none", arg |-> <<>>, seeded |-> FALSE]

\* no tracked page database is modelled
PagesIdle ==
    /\ t_pages = <<>>
    /\ t_seeded = FALSE
    /\ t_seq = 0
    /\ t_last = NoPageCall
    /\ t_before = <<>>
    /\ t_seedings = 0

\* no settings database and no settings object are modelled
SettingsIdle ==
    /\ c_meta = <<>>
    /\ c_extras = <<>>
    /\ c_live = <<>>
    /\ c_live_admins = <<>>
    /\ c_default_interval = 0
    /\ c_base_admin_ids = <<>>
    /\ c_env_admins = <<>>
    /\ c_last = [op |-> "none", outcome |-> "none", arg |-> <<>>]
    /\ c_before = <<>>

\* the parts named g are in use, every other added part is idle
\* the tasks that fetch through one Parser, and the domains they fetch from
Fetchers == {"f1", "f2"}
Domains == {"ay.by", "other"}

\* Parser.__init__, no fetch is modelled
FetchIdle ==
    /\ f_clock = 0
    /\ f_pc = [t \in Fetchers |-> "idle"]
    /\ f_kind = [t \in Fetchers |-> "page"]
    /\ f_domain = [t \in Fetchers |-> "ay.by"]
    /\ f_wake = [t \in Fetchers |-> 0]
    /\ f_lock = <<>>
    /\ f_last_request_time = [d \in Domains |-> <<>>]
    /\ f_last_error = <<>>
    /\ f_last_page_load_failed = FALSE
    /\ f_cards = [t \in Fetchers |-> 0]
    /\ f_disturbed = [t \in Fetchers |-> FALSE]
    /\ f_started = [d \in Domains |-> <<>>]
    /\ f_pair = <<>>
    /\ f_result = <<>>

\* the urls a tracked page can have: two catalogues, and the first one
\* with a sort order
TrackedUrls == {"p1", "p2", "p1?order=create"}

\* the listings of these catalogues
SweepLots == {"a", "b"}

\* Monitor.__init__, no sweep is modelled
SweepIdle ==
    /\ w_table = <<>>
    /\ w_rows = [u \in Lots |-> NoRow]
    /\ w_failed = [p \in TrackedUrls |-> 0]
    /\ w_flag = FALSE
    /\ w_error = "None"
    /\ w_alert = [t \in Tasks |-> <<>>]
    /\ w_pc = [t \in Tasks |-> "idle"]
    /\ w_pages = [t \in Tasks |-> <<>>]
    /\ w_i = [t \in Tasks |-> 0]
    /\ w_items = [t \in Tasks |-> <<>>]
    /\ w_new = [t \in Tasks |-> <<>>]
    /\ w_sent = [t \in Tasks |-> {}]
    /\ w_own = [t \in Tasks |-> "None"]
    /\ w_start = [t \in Tasks |-> <<>>]
    /\ w_checked = [t \in Tasks |-> <<>>]
    /\ w_seen = [p \in TrackedUrls |-> {}]
    /\ w_fresh = {}
    /\ w_resent = {}
    /\ w_note = <<>>
    /\ w_last = <<>>

OthersIdle(g) ==
    /\ IF "notify" \in g THEN TRUE ELSE NotifyIdle
    /\ IF "alert" \in g THEN TRUE ELSE AlertIdle
    /\ IF "media" \in g THEN TRUE ELSE MediaIdle
    /\ IF "store" \in g THEN TRUE ELSE StoreIdle
    /\ IF "item" \in g THEN TRUE ELSE ItemIdle
    /\ IF "pages" \in g THEN TRUE ELSE PagesIdle
    /\ IF "settings" \in g THEN TRUE ELSE SettingsIdle
    /\ IF "fetch" \in g THEN TRUE ELSE FetchIdle
    /\ IF "sweep" \in g THEN TRUE ELSE SweepIdle

\* no _check_url call is modelled
MonitorIdle ==
    /\ pc = "idle"
    /\ url = NoPage
    /\ last_page_load_failed = FALSE
    /\ gallery_load_errors = 0
    /\ current_items = <<>>
    /\ known_urls = {}
    /\ new_items = <<>>
    /\ item_idx = 0
    /\ chat_idx = 0
    /\ ret = "none"
    /\ notified = <<>>
    /\ delivered = {}
    /\ page_alerts = <<>>
    /\ rows0 = rows
    /\ prev = [items |-> <<>>, delivered |-> {}]

\* prev when there is nothing to remember of the call before
NoPrev == [items |-> <<>>, delivered |-> {}]

\* the items table may hold rows of earlier runs (CREATE TABLE IF NOT EXISTS)
Init ==
    /\ rows \in [Lots -> Pages \cup {NoRow}]
    /\ MonitorIdle
    /\ DeliverIdle
    /\ LockIdle
    /\ OthersIdle({})

PageLoadFailureReportedAsSuccess == "True"

\* the tag_user of every send_critical_alert call of the monitor
TagUser == "@imprfctone"

\* _load_full_item_details and, after it failed, _load_item_gallery each
\* append one entry to gallery_load_errors (parser.py:139, 153, 334, 349)
ErrorsPerCard == 2

\* the gallery alert lists the first 5 entries (gallery_load_errors[:5])
GalleryPreviewLimit == 5

\* send_critical_alert of lines 182-188: the page that could not be loaded
PageLoadAlert(p) ==
    [kind |-> "page_load", page |-> p, listed |-> 0, more |-> 0, total |-> 0,
     to |-> ADMIN_CHAT_IDS, tag_user |-> TagUser]

\* a gallery alert that lists every recorded url
GalleryAlertUncapped(p, n) ==
    [kind |-> "gallery", page |-> p, listed |-> n, more |-> 0, total |-> n,
     to |-> ADMIN_CHAT_IDS, tag_user |-> TagUser]

\* send_critical_alert of lines 197-213 for n recorded errors: one line
\* per entry of gallery_load_errors[:5], a "... and n - 5 more" line when
\* there are more than 5, and the total
GalleryAlert(p, n) ==
    [kind |-> "gallery", page |-> p,
     listed |-> IF n > GalleryPreviewLimit THEN GalleryPreviewLimit ELSE n,
     more |-> IF n > GalleryPreviewLimit THEN n - GalleryPreviewLimit ELSE 0,
     total |-> n,
     to |-> ADMIN_CHAT_IDS, tag_user |-> TagUser]

\* return value of _check_url after a page-load failure (line 190)
PageLoadFailureResult == "False"

\* return value of _check_url when the scrape has no listings (line 194)
NoItemsResult == "False"

\* the call returns or raises: the coroutine and its locals are gone
Finish(result) ==
    /\ ret' = result
    /\ pc' = "idle"
    /\ known_urls' = {}
    /\ new_items' = <<>>
    /\ item_idx' = 0
    /\ chat_idx' = 0

\* lines 192-194: "No items found", return False
NoItemsFoundWipes ==
    /\ Finish(NoItemsResult)
    /\ rows' = [u \in Lots |-> IF rows[u] = url THEN NoRow ELSE rows[u]]
    /\ UNCHANGED notified

NoItemsFound ==
    /\ Finish(NoItemsResult)
    /\ UNCHANGED <<rows, notified>>

\* lines 234-237: save_items(current_items, source_url=url); return True
SaveAndReturn(items) ==
    /\ rows' = save_items(rows, items, url)
    /\ Finish(IF save_items_raises(items) THEN "raised" ELSE "True")

\* line 230 for the new listing at position i: _send_notification builds
\* the caption (line 247), then line 254 starts on the first recipient
SendNotification(new, i) ==
    /\ notified' = Append(notified, new[i])
    /\ item_idx' = i
    /\ chat_idx' = 1
    /\ pc' = "send"

\* lines 216-230 up to the first await: the diff against the item history
Diff(items) ==
    LET known == get_known_urls(rows, url)
        new == NewItems(items, known)
    IN  IF known = {}
        THEN SaveAndReturn(items) /\ UNCHANGED notified
        ELSE IF new = <<>>
        THEN SaveAndReturn(items) /\ UNCHANGED notified
        ELSE IF caption_raises
        THEN /\ notified' = Append(notified, new[1])
             /\ Finish("raised")
             /\ UNCHANGED rows
        ELSE /\ known_urls' = known
             /\ new_items' = new
             /\ SendNotification(new, 1)
             /\ UNCHANGED <<rows, ret>>

\* the locals and histories of a fresh _check_url(p) call; line 179 awaits
\* the scrape, which resets the parser's flags before the call reads them
\* (parser.py:79, parser.py:117)
Call(p) ==
    /\ pc = "idle"
    /\ pc' = "fetch"
    /\ url' = p
    /\ rows0' = rows
    /\ last_page_load_failed' = FALSE
    /\ gallery_load_errors' = 0
    /\ current_items' = <<>>
    /\ known_urls' = {}
    /\ new_items' = <<>>
    /\ item_idx' = 0
    /\ chat_idx' = 0
    /\ ret' = "none"
    /\ notified' = <<>>
    /\ delivered' = {}
    /\ page_alerts' = <<>>
    /\ UNCHANGED rows

\* _check_url(url) is called
StartCheck(p) ==
    /\ UNCHANGED <<dvars, lvars, xvars>>
    /\ Call(p)
    /\ prev' = NoPrev

\* _check_url(p) is called again for the page whose check was just cancelled
\* after at least one delivery
StartRecheck(p) ==
    /\ UNCHANGED <<dvars, lvars, xvars>>
    /\ ret = "cancelled"
    /\ delivered # {}
    /\ p = url
    /\ Call(p)
    /\ prev' = [items |-> current_items, delivered |-> delivered]

\* the scrape ends in a page-load failure: get_items_from_url returns []
\* with parser.last_page_load_failed set; line 188 awaits the alert
FetchFailed ==
    /\ UNCHANGED <<dvars, lvars, xvars>>
    /\ pc = "fetch"
    /\ last_page_load_failed' = TRUE
    /\ pc' = "alert_fail"
    /\ prev' = NoPrev
    /\ UNCHANGED <<rows, url, gallery_load_errors, current_items, known_urls,
                   new_items, item_idx, chat_idx, ret, notified, delivered,
                   page_alerts, rows0>>

\* send_critical_alert of line 188 returns; return False
FailureAlertDone ==
    /\ UNCHANGED <<dvars, lvars, xvars>>
    /\ pc = "alert_fail"
    /\ page_alerts' = Append(page_alerts, PageLoadAlert(url))
    /\ Finish(PageLoadFailureResult)
    /\ UNCHANGED <<rows, url, last_page_load_failed, gallery_load_errors,
                   current_items, notified, delivered, rows0, prev>>

\* the scrape succeeds with the listing list items; gerr: the number of
\* gallery and detail fetches that failed on the way (parse_items records
\* at most one failed detail fetch and one failed gallery fetch per card)
FetchDone(items, gerr) ==
    /\ UNCHANGED <<dvars, lvars, xvars>>
    /\ pc = "fetch"
    /\ gerr <= ErrorsPerCard * Len(items)
    /\ current_items' = items
    /\ gallery_load_errors' = gerr
    /\ prev' = IF prev.items = items THEN prev ELSE NoPrev
    /\ UNCHANGED <<url, last_page_load_failed, delivered, page_alerts, rows0>>
    /\ IF items = <<>>
       THEN NoItemsFound
       ELSE IF gerr > 0
       THEN /\ pc' = "alert_gallery"
            /\ UNCHANGED <<rows, known_urls, new_items, item_idx, chat_idx, notified, ret>>
       ELSE Diff(items)

\* send_critical_alert of line 213 returns; the check goes on to the diff
GalleryAlertDone ==
    /\ UNCHANGED <<dvars, lvars, xvars>>
    /\ pc = "alert_gallery"
    /\ page_alerts' = Append(page_alerts, GalleryAlert(url, gallery_load_errors))
    /\ Diff(current_items)
    /\ UNCHANGED <<url, last_page_load_failed, gallery_load_errors,
                   current_items, delivered, rows0, prev>>

\* _deliver_notification for new_items[item_idx] and the chat at chat_idx
\* returns with outcome o; line 261 then sleeps
SendDone(o) ==
    /\ UNCHANGED <<dvars, lvars, xvars>>
    /\ pc = "send"
    /\ delivered' = IF o = "sent"
                    THEN delivered \cup {<<new_items[item_idx], ADMIN_CHAT_IDS[chat_idx]>>}
                    ELSE delivered
    /\ pc' = "pause"
    /\ UNCHANGED <<rows, url, last_page_load_failed, gallery_load_errors,
                   current_items, known_urls, new_items, item_idx, chat_idx,
                   ret, notified, page_alerts, rows0, prev>>

\* the sleep of line 261 ends: next recipient, next new listing, or the
\* save_items of line 234 and return True
PauseDone ==
    /\ UNCHANGED <<dvars, lvars, xvars>>
    /\ pc = "pause"
    /\ UNCHANGED <<url, last_page_load_failed, gallery_load_errors,
                   current_items, delivered, page_alerts, rows0, prev>>
    /\ IF chat_idx < Len(ADMIN_CHAT_IDS)
       THEN /\ chat_idx' = chat_idx + 1
            /\ pc' = "send"
            /\ UNCHANGED <<rows, known_urls, new_items, item_idx, ret, notified>>
       ELSE IF item_idx < Len(new_items) /\ caption_raises
       THEN /\ notified' = Append(notified, new_items[item_idx + 1])
            /\ Finish("raised")
            /\ UNCHANGED rows
       ELSE IF item_idx < Len(new_items)
       THEN /\ SendNotification(new_items, item_idx + 1)
            /\ UNCHANGED <<rows, known_urls, new_items, ret>>
       ELSE /\ SaveAndReturn(current_items)
            /\ UNCHANGED notified

\* the task running the sweep is cancelled while _check_url is suspended
\* at an await (check_new_items re-raises CancelledError, lines 135-137)
Cancel ==
    /\ UNCHANGED <<dvars, lvars, xvars>>
    /\ pc \in {"fetch", "alert_fail", "alert_gallery", "send", "pause"}
    /\ Finish("cancelled")
    /\ UNCHANGED <<rows, url, last_page_load_failed, gallery_load_errors,
                   current_items, notified, delivered, page_alerts, rows0, prev>>

Next ==
    \/ \E p \in Pages : StartCheck(p)
    \/ FetchFailed
    \/ FailureAlertDone
    \/ \E items \in SeqsUpTo(Lots, MaxItems), gerr \in 0..(ErrorsPerCard * MaxItems) :
          FetchDone(items, gerr)
    \/ GalleryAlertDone
    \/ \E o \in DeliveryOutcomes : SendDone(o)
    \/ PauseDone
    \/ Cancel

Spec == Init /\ [][Next]_vars

\* the same program, remembering across a cancelled check and the next
\* check of the same page what the cancelled one delivered
NextCancel ==
    \/ Next
    \/ \E p \in Pages : StartRecheck(p)

SpecCancel == Init /\ [][NextCancel]_vars

\* scrapes of a page that shows every listing once
FullPages == {s \in SeqsUpTo(Lots, Cardinality(Lots)) :
                 Len(s) = Cardinality(Lots) /\ Range(s) = Lots}

\* the same program checking such pages, with any number of failed
\* gallery and detail fetches
NextGallery ==
    \/ \E p \in Pages : StartCheck(p)
    \/ \E items \in FullPages, gerr \in 0..(ErrorsPerCard * Cardinality(Lots)) :
          FetchDone(items, gerr)
    \/ GalleryAlertDone
    \/ \E o \in DeliveryOutcomes : SendDone(o)
    \/ PauseDone

SpecGallery == Init /\ [][NextGallery]_vars

(***************************************************************************)
(* Monitor._deliver_notification                                           *)
(***************************************************************************)
\* the attempt ceiling of the while loop (line 273)
MaxAttempts == 5

\* a caption is a sequence of tokens: a markup tag ("tag", e.g. <b>), an
\* escaped entity ("entity", e.g. &amp;), plain text ("text"), or the
\* character an entity stands for ("char")
CaptionTokens == {"tag", "entity", "text"}

\* the captions _build_notification_caption returns: the banner line (an
\* emoji, then a phrase between <b> and </b>) and then the escaped title,
\* price and links
Captions ==
    {<<"text", "tag", "text", "tag">> \o rest : rest \in SeqsUpTo(CaptionTokens, MaxCaptionLen)}

_strip_html_keeps_markup(value) == value

\* _strip_html(value): re.sub(r"<[^>]+>", "", value), then html.unescape
RECURSIVE _strip_html(_)
_strip_html(value) ==
    IF value = <<>> THEN <<>>
    ELSE LET rest == _strip_html(Tail(value))
         IN  IF Head(value) = "tag" THEN rest
             ELSE IF Head(value) = "entity" THEN <<"char">> \o rest
             ELSE <<Head(value)>> \o rest

\* phrases _deliver_notification looks for in a TelegramBadRequest message
BadRequestPhrases == {"chat not found", "can't parse entities"}

\* what one _send_to_chat call ends in: it returns ("ok"), or raises
\* TelegramRetryAfter(retry_after), TelegramForbiddenError ("forbidden"),
\* TelegramBadRequest(message) ("bad_request", msg: the phrases the message
\* holds), or any other Exception ("error")
Responses ==
    {[kind |-> k, retry_after |-> 0, msg |-> {}] : k \in {"ok", "forbidden", "error"}}
    \cup {[kind |-> "retry_after", retry_after |-> n, msg |-> {}] : n \in 1..MaxRetryAfter}
    \cup {[kind |-> "bad_request", retry_after |-> 0, msg |-> m] : m \in SUBSET BadRequestPhrases}

LoopGuardInclusive(a) == a <= MaxAttempts

\* while attempts < 5 (line 273)
LoopGuard(a) == a < MaxAttempts

RetryAfterSleepNoMargin(retry_after) == retry_after

\* await asyncio.sleep(exc.retry_after + 1) (line 280)
RetryAfterSleep(retry_after) == retry_after + 1

\* the call _deliver_notification(c, it, media_urls, cap) starts
\* (lines 270-272)
DeliverCalled(c, it, cap) ==
    /\ d_pc = "loop"
    /\ chat_id = c
    /\ item = it
    /\ caption0 = cap
    /\ caption = cap
    /\ parse_mode = "HTML"
    /\ fallback_applied = FALSE
    /\ attempts = 0
    /\ sleeping = 0
    /\ sends = <<>>
    /\ d_alerts = <<>>

InitDeliver ==
    /\ rows = [u \in Lots |-> NoRow]
    /\ MonitorIdle
    /\ LockIdle
    /\ OthersIdle({})
    /\ \E c \in Range(ADMIN_CHAT_IDS), it \in Lots, cap \in Captions :
          DeliverCalled(c, it, cap)

AlertAndReturnAnonymous(reason) ==
    /\ d_alerts' = Append(d_alerts, [chat |-> 0, item |-> NoItem,
                                     reason |-> reason, to |-> ADMIN_CHAT_IDS,
                                     tag_user |-> TagUser])
    /\ d_pc' = "done"

\* _alert_notification_failure(chat_id, item, reason): the message names the
\* chat, the listing (title and url) and the reason and goes to
\* settings.ADMIN_CHAT_IDS; then the call returns
AlertAndReturn(reason) ==
    /\ d_alerts' = Append(d_alerts, [chat |-> chat_id, item |-> item,
                                     reason |-> reason, to |-> ADMIN_CHAT_IDS,
                                     tag_user |-> TagUser])
    /\ d_pc' = "done"

SkipChatWithAlert ==
    /\ AlertAndReturn("unreachable")
    /\ sleeping' = 0
    /\ UNCHANGED <<caption, parse_mode, fallback_applied>>

\* lines 282-283 and 287-288: the chat is unreachable, log a warning and
\* return
SkipChat ==
    /\ d_pc' = "done"
    /\ sleeping' = 0
    /\ UNCHANGED <<caption, parse_mode, fallback_applied, d_alerts>>

\* the except clauses of lines 279-300 for the exception (or return) resp
HandleResponse(resp) ==
    IF resp.kind = "ok"
    THEN /\ d_pc' = "done"
         /\ sleeping' = 0
         /\ UNCHANGED <<caption, parse_mode, fallback_applied, d_alerts>>
    ELSE IF resp.kind = "retry_after"
    THEN /\ sleeping' = RetryAfterSleep(resp.retry_after)
         /\ d_pc' = "sleep"
         /\ UNCHANGED <<caption, parse_mode, fallback_applied, d_alerts>>
    ELSE IF resp.kind = "forbidden"
    THEN SkipChat
    ELSE IF resp.kind = "bad_request" /\ "chat not found" \in resp.msg
    THEN SkipChat
    ELSE IF resp.kind = "bad_request" /\ "can't parse entities" \in resp.msg
                                      /\ ~fallback_applied
    THEN /\ caption' = _strip_html(caption)
         /\ parse_mode' = "None"
         /\ fallback_applied' = TRUE
         /\ d_pc' = "loop"
         /\ sleeping' = 0
         /\ UNCHANGED d_alerts
    ELSE IF resp.kind = "bad_request"
    THEN /\ AlertAndReturn("bad_request")
         /\ sleeping' = 0
         /\ UNCHANGED <<caption, parse_mode, fallback_applied>>
    ELSE /\ AlertAndReturn("unexpected")
         /\ sleeping' = 0
         /\ UNCHANGED <<caption, parse_mode, fallback_applied>>

\* one pass of the loop body: attempts += 1, await _send_to_chat(...), and
\* the handling of what it ends in
Attempt(resp) ==
    /\ d_pc = "loop"
    /\ LoopGuard(attempts)
    /\ attempts' = attempts + 1
    /\ sends' = Append(sends, [chat |-> chat_id, caption |-> caption,
                               parse_mode |-> parse_mode, slept |-> sleeping,
                               resp |-> resp])
    /\ HandleResponse(resp)
    /\ UNCHANGED <<chat_id, item, caption0>>
    /\ UNCHANGED <<mvars, lvars, xvars>>

\* the asyncio.sleep of line 280 ends; back to the loop condition
WakeUp ==
    /\ d_pc = "sleep"
    /\ d_pc' = "loop"
    /\ UNCHANGED <<chat_id, item, caption0, caption, parse_mode,
                   fallback_applied, attempts, sleeping, sends, d_alerts>>
    /\ UNCHANGED <<mvars, lvars, xvars>>

\* the loop condition fails: lines 301-302
Exhausted ==
    /\ d_pc = "loop"
    /\ ~LoopGuard(attempts)
    /\ AlertAndReturn("exhausted")
    /\ UNCHANGED <<chat_id, item, caption0, caption, parse_mode,
                   fallback_applied, attempts, sleeping, sends>>
    /\ UNCHANGED <<mvars, lvars, xvars>>

NextDeliver ==
    \/ \E resp \in Responses : Attempt(resp)
    \/ WakeUp
    \/ Exhausted

SpecDeliver == InitDeliver /\ [][NextDeliver]_vars

\* the event loop resumes a coroutine whose await has completed, and every
\* transport call and every sleep ends
SpecDeliverFair == SpecDeliver /\ WF_vars(NextDeliver)

(***************************************************************************)
(* Monitor._send_notification, lines 254-261: the per-chat locks, with two *)
(* tasks in _send_notification at once (main.py awaits the startup sweep   *)
(* while the scheduler may fire monitor.check_new_items).                  *)
(***************************************************************************)
LockAlwaysFree(h, w, c) == TRUE

\* asyncio.Lock.acquire takes the lock without waiting: it is not locked
\* and no task waits for it (h: the holders, w: the waiters)
LockFree(h, w, c) == h[c] = NoTask /\ w[c] = <<>>

InitLock ==
    /\ rows = [u \in Lots |-> NoRow]
    /\ MonitorIdle
    /\ DeliverIdle
    /\ LockIdle
    /\ OthersIdle({})

\* task t reaches "async with lock" (lines 255-259) for the chat at
\* position i, the locks being as h, w, a and the tasks at pcs: it takes
\* the lock and starts _deliver_notification, or waits for it
AcquireFor(t, i, h, w, a, pcs) ==
    LET c == ADMIN_CHAT_IDS[i]
    IN  /\ l_chat' = [l_chat EXCEPT ![t] = i]
        /\ l_attempts' = [l_attempts EXCEPT ![t] = 0]
        /\ IF LockFree(h, w, c)
           THEN /\ holder' = [h EXCEPT ![c] = t]
                /\ waiters' = w
                /\ acquired' = [a EXCEPT ![c] = Append(@, t)]
                /\ l_pc' = [pcs EXCEPT ![t] = "send"]
           ELSE /\ holder' = h
                /\ waiters' = [w EXCEPT ![c] = Append(@, t)]
                /\ acquired' = a
                /\ l_pc' = [pcs EXCEPT ![t] = "wait"]

\* task t calls _send_notification: the caption is built and the loop over
\* ADMIN_CHAT_IDS starts
LEnter(t) ==
    /\ l_pc[t] = "idle"
    /\ ~caption_raises
    /\ AcquireFor(t, 1, holder, waiters, acquired, l_pc)
    /\ UNCHANGED arrived
    /\ UNCHANGED <<mvars, dvars, xvars>>

\* a send attempt of t's delivery ends: more is TRUE when it was rate
\* limited (the delivery sleeps and goes back to the loop condition)
LSend(t, more) ==
    /\ l_pc[t] = "send"
    /\ l_attempts' = [l_attempts EXCEPT ![t] = l_attempts[t] + 1]
    /\ arrived' = IF l_attempts[t] = 0
                  THEN [arrived EXCEPT ![ADMIN_CHAT_IDS[l_chat[t]]] = Append(@, t)]
                  ELSE arrived
    /\ l_pc' = [l_pc EXCEPT ![t] = IF more THEN "sleep" ELSE "pause"]
    /\ UNCHANGED <<l_chat, holder, waiters, acquired>>
    /\ UNCHANGED <<mvars, dvars, xvars>>

\* the backoff sleep of t ends: another attempt, or the attempts are
\* exhausted and the delivery returns to the pause of line 261
LWake(t) ==
    /\ l_pc[t] = "sleep"
    /\ l_pc' = [l_pc EXCEPT ![t] = IF LoopGuard(l_attempts[t]) THEN "send" ELSE "pause"]
    /\ UNCHANGED <<l_chat, l_attempts, holder, waiters, acquired, arrived>>
    /\ UNCHANGED <<mvars, dvars, xvars>>

\* the pause of line 261 ends and t leaves "async with lock": the lock is
\* released and handed to its first waiter, and t goes on to the next chat
\* or returns
LPauseDone(t) ==
    /\ l_pc[t] = "pause"
    /\ LET c == ADMIN_CHAT_IDS[l_chat[t]]
           w == waiters[c]
           pcs == IF w = <<>> THEN l_pc ELSE [l_pc EXCEPT ![Head(w)] = "send"]
           h == [holder EXCEPT ![c] = IF w = <<>> THEN NoTask ELSE Head(w)]
           ws == [waiters EXCEPT ![c] = IF w = <<>> THEN <<>> ELSE Tail(w)]
           a == IF w = <<>> THEN acquired
                ELSE [acquired EXCEPT ![c] = Append(@, Head(w))]
       IN  IF l_chat[t] < Len(ADMIN_CHAT_IDS)
           THEN AcquireFor(t, l_chat[t] + 1, h, ws, a, pcs)
           ELSE /\ holder' = h
                /\ waiters' = ws
                /\ acquired' = a
                /\ l_pc' = [pcs EXCEPT ![t] = "returned"]
                /\ UNCHANGED <<l_chat, l_attempts>>
    /\ UNCHANGED arrived
    /\ UNCHANGED <<mvars, dvars, xvars>>

NextLock ==
    \/ \E t \in Tasks : LEnter(t)
    \/ \E t \in Tasks, more \in BOOLEAN : LSend(t, more)
    \/ \E t \in Tasks : LWake(t)
    \/ \E t \in Tasks : LPauseDone(t)

SpecLock == InitLock /\ [][NextLock]_vars

(***************************************************************************)
(* Monitor._send_notification with its deliveries: one call, the loop over *)
(* ADMIN_CHAT_IDS (lines 254-261) and each _deliver_notification in full.  *)
(***************************************************************************)
\* the caption of the call: the banner, an escaped title and a link
NotifyCaption == <<"text", "tag", "text", "tag", "entity", "tag">>

\* _send_notification is called for one of these listings
NotifyCalled(listings) ==
    /\ rows = [u \in Lots |-> NoRow]
    /\ MonitorIdle
    /\ LockIdle
    /\ OthersIdle({"notify"})
    /\ ~caption_raises
    /\ n_pc = "deliver"
    /\ n_idx = 1
    /\ n_log = <<>>
    /\ \E it \in listings : DeliverCalled(ADMIN_CHAT_IDS[1], it, NotifyCaption)

InitNotify == NotifyCalled(Lots)

\* what is remembered of a delivery that has returned
DeliverySummary ==
    [chat |-> chat_id,
     attempts |-> Len(sends),
     last |-> sends[Len(sends)].resp,
     alerts |-> [i \in 1..Len(d_alerts) |-> d_alerts[i].reason]]

\* _deliver_notification returns (line 259); line 261 sleeps
NDeliveryReturned ==
    /\ n_pc = "deliver"
    /\ d_pc = "done"
    /\ n_pc' = "pause"
    /\ n_log' = Append(n_log, DeliverySummary)
    /\ UNCHANGED n_idx
    /\ UNCHANGED <<mvars, dvars, lvars, avars, pvars, svars, ivars, yvars>>

NPauseDoneReturnsEarly ==
    /\ n_pc = "pause"
    /\ n_pc' = "returned"
    /\ UNCHANGED <<n_idx, n_log>>
    /\ UNCHANGED <<mvars, dvars, lvars, avars, pvars, svars, ivars, yvars>>

\* the sleep of line 261 ends: _deliver_notification for the next chat,
\* with the caption as line 247 built it, or the call returns
NPauseDone ==
    /\ n_pc = "pause"
    /\ IF n_idx < Len(ADMIN_CHAT_IDS)
       THEN /\ n_idx' = n_idx + 1
            /\ n_pc' = "deliver"
            /\ d_pc' = "loop"
            /\ chat_id' = ADMIN_CHAT_IDS[n_idx + 1]
            /\ caption' = caption0
            /\ parse_mode' = "HTML"
            /\ fallback_applied' = FALSE
            /\ attempts' = 0
            /\ sleeping' = 0
            /\ sends' = <<>>
            /\ d_alerts' = <<>>
            /\ UNCHANGED <<item, caption0>>
       ELSE /\ n_pc' = "returned"
            /\ UNCHANGED <<n_idx, dvars>>
    /\ UNCHANGED n_log
    /\ UNCHANGED <<mvars, lvars, avars, pvars, svars, ivars, yvars>>

NextNotify ==
    \/ NextDeliver
    \/ NDeliveryReturned
    \/ NPauseDone

SpecNotify == InitNotify /\ [][NextNotify]_vars

\* the event loop runs the task on: every await of the call ends, the
\* sends with one of the responses and the sleeps after their time
SpecNotifyFair == NotifyCalled({"a"}) /\ [][NextNotify]_vars /\ WF_vars(NextNotify)

(***************************************************************************)
(* alerts.send_critical_alert                                              *)
(***************************************************************************)
\* longest admin_chat_ids list passed to send_critical_alert
MaxRecipients == 3

\* chat ids that can appear in the list (an id may appear twice)
AlertChats == {1, 2, 3}

\* what one bot.send_message call ends in: it returns, or it raises an
\* error of the Telegram API or another error (network, client session);
\* all of them are subclasses of Exception
SendOutcomes == {"ok", "telegram_error", "other_error"}

CaughtOnlyTelegram(o) == o = "telegram_error"

\* except Exception (line 36)
Caught(o) == o \in {"telegram_error", "other_error"}

\* the text of line 29-31: banner, message and, if given, the tag
FullMessage(tag) == [banner |-> TRUE, tagged |-> tag # NoTag, tag |-> tag]

InitAlert ==
    /\ rows = [u \in Lots |-> NoRow]
    /\ MonitorIdle
    /\ DeliverIdle
    /\ LockIdle
    /\ OthersIdle({"alert"})
    /\ a_pc = "start"
    /\ a_to \in SeqsUpTo(AlertChats, MaxRecipients)
    /\ a_tag \in {NoTag, TagUser}
    /\ a_idx = 0
    /\ a_sent = <<>>

\* lines 26-33: return at once for an empty list, else enter the loop
AStart ==
    /\ a_pc = "start"
    /\ IF a_to = <<>>
       THEN a_pc' = "returned" /\ UNCHANGED a_idx
       ELSE a_pc' = "send" /\ a_idx' = 1
    /\ UNCHANGED <<a_to, a_tag, a_sent>>
    /\ UNCHANGED <<mvars, dvars, lvars, nvars, pvars, svars, ivars, yvars>>

\* lines 34-37 for the chat at a_idx: the send ends in o; an exception the
\* except clause catches is written to stderr and the loop goes on
ASend(o) ==
    /\ a_pc = "send"
    /\ a_sent' = Append(a_sent, [chat |-> a_to[a_idx], text |-> FullMessage(a_tag),
                                 parse_mode |-> "HTML", outcome |-> o])
    /\ IF o # "ok" /\ ~Caught(o)
       THEN a_pc' = "raised" /\ UNCHANGED a_idx
       ELSE IF a_idx < Len(a_to)
       THEN a_pc' = "send" /\ a_idx' = a_idx + 1
       ELSE a_pc' = "returned" /\ UNCHANGED a_idx
    /\ UNCHANGED <<a_to, a_tag>>
    /\ UNCHANGED <<mvars, dvars, lvars, nvars, pvars, svars, ivars, yvars>>

NextAlert ==
    \/ AStart
    \/ \E o \in SendOutcomes : ASend(o)

SpecAlert == InitAlert /\ [][NextAlert]_vars

(***************************************************************************)
(* The media of a listing: models.Item.__post_init__, the media_urls of    *)
(* Monitor._send_notification (lines 249-252) and Monitor._send_to_chat.   *)
(* An image url is a number: 0 is the empty string, and the url at         *)
(* position i of a gallery is i.                                           *)
(***************************************************************************)
\* longest image_urls tuple
MaxImages == 11
\* most empty entries in an image_urls tuple
MaxBlanks == 2

\* media_urls[:10] (line 324)
AlbumLimit == 10

\* the image_urls tuples
Galleries ==
    {[i \in 1..n |-> IF i \in B THEN 0 ELSE i] :
        n \in 0..MaxImages,
        B \in {b \in SUBSET (1..MaxImages) : Cardinality(b) <= MaxBlanks}}

\* Item.__post_init__: img_url defaults to the first gallery entry, and an
\* empty gallery to the img_url
post_init(args) ==
    IF args.image_urls # <<>> /\ args.img_url = 0
    THEN [args EXCEPT !.img_url = args.image_urls[1]]
    ELSE IF args.img_url # 0 /\ args.image_urls = <<>>
    THEN [args EXCEPT !.image_urls = <<args.img_url>>]
    ELSE args

\* lines 249-252: the non-empty entries of item.image_urls, or else the
\* img_url if there is one
MediaUrls(it) ==
    LET listed == SelectSeq(it.image_urls, LAMBDA u : u # 0)
    IN  IF listed = <<>> /\ it.img_url # 0 THEN <<it.img_url>> ELSE listed

AlbumUncapped(media_urls, pm) ==
    [index \in 1..Len(media_urls) |->
        IF index = 1
        THEN [media |-> media_urls[index], caption |-> TRUE, parse_mode |-> pm]
        ELSE [media |-> media_urls[index], caption |-> FALSE, parse_mode |-> "unset"]]

\* lines 323-335: the media_group list
Album(media_urls, pm) ==
    LET shown == SubSeq(media_urls, 1, IF Len(media_urls) > AlbumLimit
                                       THEN AlbumLimit ELSE Len(media_urls))
    IN  [index \in 1..Len(shown) |->
            IF index = 1
            THEN [media |-> shown[index], caption |-> TRUE, parse_mode |-> pm]
            ELSE [media |-> shown[index], caption |-> FALSE, parse_mode |-> "unset"]]

\* lines 345-358: kwargs holds parse_mode only if it is set
Single(primitive, media, pm) ==
    [primitive |-> primitive,
     entries |-> <<[media |-> media, caption |-> TRUE,
                    parse_mode |-> IF pm = "None" THEN "unset" ELSE pm]>>]

SendToChatFallsThrough(media_urls, pm) ==
    (IF Len(media_urls) > 1
     THEN <<[primitive |-> "send_media_group", entries |-> Album(media_urls, pm)]>>
     ELSE <<>>)
    \o (IF media_urls # <<>>
        THEN <<Single("send_photo", media_urls[1], pm)>>
        ELSE <<Single("send_message", 0, pm)>>)

\* _send_to_chat(chat_id, media_urls, caption, parse_mode): the transport
\* calls it makes, in order
SendToChat(media_urls, pm) ==
    IF Len(media_urls) > 1
    THEN <<[primitive |-> "send_media_group", entries |-> Album(media_urls, pm)]>>
    ELSE IF media_urls # <<>>
    THEN <<Single("send_photo", media_urls[1], pm)>>
    ELSE <<Single("send_message", 0, pm)>>

InitMedia ==
    /\ rows = [u \in Lots |-> NoRow]
    /\ MonitorIdle
    /\ DeliverIdle
    /\ LockIdle
    /\ OthersIdle({"media"})
    /\ p_pc = "args"
    /\ p_args \in [img_url : {0, MaxImages + 1}, image_urls : Galleries]
    /\ p_item = NoImages
    /\ p_media = <<>>
    /\ p_calls = <<>>

\* Item(url, title, price, img_url, image_urls)
PConstruct ==
    /\ p_pc = "args"
    /\ p_item' = post_init(p_args)
    /\ p_pc' = "item"
    /\ UNCHANGED <<p_args, p_media, p_calls>>
    /\ UNCHANGED <<mvars, dvars, lvars, nvars, avars, svars, ivars, yvars>>

\* _send_notification(item) up to line 252
PMediaUrls ==
    /\ p_pc = "item"
    /\ p_media' = MediaUrls(p_item)
    /\ p_pc' = "media"
    /\ UNCHANGED <<p_args, p_item, p_calls>>
    /\ UNCHANGED <<mvars, dvars, lvars, nvars, avars, svars, ivars, yvars>>

\* one _send_to_chat(chat_id, media_urls, caption, pm) call
PSendToChat(pm) ==
    /\ p_pc = "media"
    /\ p_calls' = SendToChat(p_media, pm)
    /\ p_pc' = "sent"
    /\ UNCHANGED <<p_args, p_item, p_media>>
    /\ UNCHANGED <<mvars, dvars, lvars, nvars, avars, svars, ivars, yvars>>

NextMedia ==
    \/ PConstruct
    \/ PMediaUrls
    \/ \E pm \in {"HTML", "None"} : PSendToChat(pm)

SpecMedia == InitMedia /\ [][NextMedia]_vars

(***************************************************************************)
(* ItemRepository row by row (SpecStore): the columns id, url, title,      *)
(* source_url and created_at of the items table.  title stands for the     *)
(* columns the upsert overwrites from the listing (title, price, img_url,  *)
(* gallery, description_table, description_text).                          *)
(***************************************************************************)
\* the rows one save_items call may write
MaxBatch == 2
\* the largest rowid handed out
MaxRowId == 3

Titles == {"t1", "t2"}

\* the listings passed to save_items
StoreItems == [url : Lots, title : Titles]

\* one element of records: the values bound to the INSERT
Record(it, source_url, timestamp) ==
    [url |-> it.url, title |-> it.title, source_url |-> source_url,
     created_at |-> timestamp]

\* a conflicting record removes the stored row and is dropped
UpsertDeletesOnConflict(t, rec, rowid) ==
    IF \E r \in t : r.url = rec.url
    THEN {r \in t : r.url # rec.url}
    ELSE t \cup {[id |-> rowid, url |-> rec.url, title |-> rec.title,
                  source_url |-> rec.source_url, created_at |-> rec.created_at]}

\* a conflicting record replaces the stored row, rowid and created_at
\* included (INSERT OR REPLACE)
UpsertReplacesRow(t, rec, rowid) ==
    {r \in t : r.url # rec.url}
        \cup {[id |-> rowid, url |-> rec.url, title |-> rec.title,
               source_url |-> rec.source_url, created_at |-> rec.created_at]}

\* INSERT INTO items (...) VALUES (...) ON CONFLICT(url) DO UPDATE SET
\* title = excluded.title, ..., source_url = excluded.source_url for one
\* record, rowid being the key the AUTOINCREMENT column offers: a row with
\* the url keeps its id and created_at, otherwise the record becomes a row
Upsert(t, rec, rowid) ==
    IF \E r \in t : r.url = rec.url
    THEN {IF r.url = rec.url
          THEN [r EXCEPT !.title = rec.title, !.source_url = rec.source_url]
          ELSE r : r \in t}
    ELSE t \cup {[id |-> rowid, url |-> rec.url, title |-> rec.title,
                  source_url |-> rec.source_url, created_at |-> rec.created_at]}

\* connection.executemany: the statement runs for the records in list
\* order; each run takes the next rowid, also when it ends in the update
RECURSIVE executemany(_, _, _)
executemany(t, records, seq) ==
    IF records = <<>> THEN t
    ELSE executemany(Upsert(t, Head(records), seq + 1), Tail(records), seq + 1)

\* get_known_urls(source_url) on the rows t; "" stands for no argument
\* (if source_url: is false for None and for "")
StoreKnownUrls(t, source_url) ==
    IF source_url = "" THEN {r.url : r \in t}
    ELSE {r.url : r \in {q \in t : q.source_url = source_url}}

\* the table t as the change detection engine sees it
RowsOf(t) ==
    [u \in Lots |-> IF \E r \in t : r.url = u
                    THEN (CHOOSE r \in t : r.url = u).source_url
                    ELSE NoRow]

\* ItemRepository(db_path) on a new database file
InitStore ==
    /\ rows = [u \in Lots |-> NoRow]
    /\ MonitorIdle
    /\ DeliverIdle
    /\ LockIdle
    /\ OthersIdle({"store"})
    /\ items_table = {}
    /\ sqlite_sequence = 0
    /\ now = 0
    /\ s_last = NoCall
    /\ s_before = {}

\* save_items(items, source_url): nothing happens for an empty list; the
\* clock is read once for all records
SaveItems(items, source_url) ==
    /\ UNCHANGED <<mvars, dvars, lvars, nvars, avars, pvars, ivars, yvars>>
    /\ sqlite_sequence + Len(items) <= MaxRowId
    /\ ~save_items_raises(items)
    /\ s_last' = [op |-> "save_items", items |-> items, source_url |-> source_url]
    /\ s_before' = items_table
    /\ IF items = <<>>
       THEN UNCHANGED <<items_table, sqlite_sequence, now>>
       ELSE /\ now' = now + 1
            /\ LET timestamp == now'
                    records == [i \in 1..Len(items) |->
                                   Record(items[i], source_url, timestamp)]
               IN  items_table' = executemany(items_table, records, sqlite_sequence)
            /\ sqlite_sequence' = sqlite_sequence + Len(items)

\* clear(): DELETE FROM items
Clear ==
    /\ UNCHANGED <<mvars, dvars, lvars, nvars, avars, pvars, ivars, yvars>>
    /\ s_last' = [op |-> "clear", items |-> <<>>, source_url |-> NoPage]
    /\ s_before' = items_table
    /\ items_table' = {}
    /\ UNCHANGED <<sqlite_sequence, now>>

NextStore ==
    \/ \E items \in SeqsUpTo(StoreItems, MaxBatch), source_url \in Pages :
          SaveItems(items, source_url)
    \/ Clear

SpecStore == InitStore /\ [][NextStore]_vars

(***************************************************************************)
(* models.Item: equality, hashing and sets of Item objects (SpecItem).     *)
(***************************************************************************)
\* the Item objects: Item(url, title, price, img_url); image_urls follows
\* from img_url by __post_init__
ItemUrls == {"a", "b"}

Listings ==
    [url : ItemUrls, title : Titles, price : {"100", "200"}, img_url : {"img1", "img2"}]

\* the values hash() gives the url strings
HashValues == {"h1", "h2"}

\* isinstance(other, Item)
IsItem(other) == other \in Listings

\* the __eq__ a dataclass generates: all fields are compared
__eq__by_fields(self, other) ==
    IF ~IsItem(other) THEN FALSE ELSE self = other

\* Item.__eq__
__eq__(self, other) ==
    IF ~IsItem(other) THEN FALSE ELSE self.url = other.url

\* Item.__hash__: hash(self.url)
__hash__(self) == i_hash[self.url]

\* set.add(x) on the elements S: x is added unless an element with the
\* hash of x is equal to x
set_add(S, x) ==
    IF \E e \in S : __hash__(e) = __hash__(x) /\ __eq__(e, x)
    THEN S
    ELSE S \cup {x}

\* an empty set, in a process with some hash of the url strings
InitItem ==
    /\ rows = [u \in Lots |-> NoRow]
    /\ MonitorIdle
    /\ DeliverIdle
    /\ LockIdle
    /\ OthersIdle({"item"})
    /\ i_hash \in [ItemUrls -> HashValues]
    /\ i_set = {}
    /\ i_last = <<>>
    /\ i_before = {}

\* items_set.add(x)
SetAdd(x) ==
    /\ UNCHANGED <<mvars, dvars, lvars, nvars, avars, pvars, svars, yvars>>
    /\ i_set' = set_add(i_set, x)
    /\ i_last' = <<x>>
    /\ i_before' = i_set
    /\ UNCHANGED i_hash

NextItem == \E x \in Listings : SetAdd(x)

SpecItem == InitItem /\ [][NextItem]_vars

(***************************************************************************)
(* URL strings.  A string is its leading and trailing whitespace (pad),    *)
(* the scheme with "://", the rest up to the query, the "?" if written     *)
(* (q), the query split at "&" (<<>> is the empty query) and a bare "#"    *)
(* at the end if written (h).  A query segment is its text before the      *)
(* first "=", whether the "=" is written, and the text after it.           *)
(***************************************************************************)
Str(pad, scheme, rest) ==
    [pad |-> pad, scheme |-> scheme, rest |-> rest,
     q |-> FALSE, query |-> <<>>, h |-> FALSE]

\* str.strip()
strip(u) == [u EXCEPT !.pad = FALSE]

\* the empty string (not s)
IsEmpty(u) ==
    ~u.pad /\ u.scheme = "" /\ u.rest = "" /\ ~u.q /\ u.query = <<>> /\ ~u.h

startswith_anything(u) == TRUE

\* u.startswith(("http://", "https://"))
startswith_http(u) == ~u.pad /\ u.scheme \in {"http://", "https://"}

\* parse_qs(parsed.query).get("order", [""])[0]: the first non-blank value
\* given for the key order, "" if there is none
FirstOrder(u) ==
    LET given == SelectSeq(u.query,
                           LAMBDA seg : seg.key = "order" /\ seg.eq /\ seg.value # "")
    IN  IF given = <<>> THEN "" ELSE given[1].value

(***************************************************************************)
(* TrackedPageRepository (SpecPages).                                      *)
(***************************************************************************)
\* the largest page id handed out
MaxPageId == 3

\* a label as _build_label makes it: the last path segment ("Page" for the
\* fallback word of line 200 when there is none), the order hint
\* and the number that tells it from the labels in use (1: none)
Label(path, order, suffix) == [path |-> path, order |-> order, suffix |-> suffix]

\* _build_label(url, existing_labels)
_build_label(u, existing_labels) ==
    LET path_segment == IF u.rest = "" THEN "Page" ELSE u.rest
        order == FirstOrder(u)
    IN  IF Label(path_segment, order, 1) \notin existing_labels
        THEN Label(path_segment, order, 1)
        ELSE Label(path_segment, order,
                   CHOOSE n \in 2..(Cardinality(existing_labels) + 2) :
                      /\ Label(path_segment, order, n) \notin existing_labels
                      /\ \A k \in 2..(n - 1) :
                            Label(path_segment, order, k) \in existing_labels)

\* the urls and labels of the rows t
UrlsOf(t) == {t[i].url : i \in 1..Len(t)}
LabelsOf(t) == {t[i].label : i \in 1..Len(t)}
IdsOf(t) == {t[i].id : i \in 1..Len(t)}

\* the rows the seeding inserts for the urls, in order, after id seq
RECURSIVE SeedRows(_, _, _)
SeedRows(urls, seq, done) ==
    IF urls = <<>> THEN done
    ELSE SeedRows(Tail(urls), seq + 1,
                  Append(done, [id |-> seq + 1,
                                label |-> _build_label(Head(urls), LabelsOf(done)),
                                url |-> Head(urls), enabled |-> TRUE]))

\* the values settings.MONITOR_URLS can have when a repository is made
UrlA == Str(FALSE, "https://", "a")
UrlB == Str(FALSE, "http://", "b")
Blank == Str(TRUE, "", "")
DefaultLists == {<<>>, <<UrlA>>, <<UrlA, UrlB>>, <<UrlA, UrlA>>, <<Blank, strip(Blank), UrlB>>,
                 <<Str(TRUE, "https://", "a")>>}

\* the url and label arguments of add_page
AddUrls == {UrlA, UrlB, Str(TRUE, "https://", "a"), Str(FALSE, "ftp://", "a"),
            Str(FALSE, "", "a"), Str(FALSE, "HTTP://", "b"), Blank, strip(Blank)}
LabelArgs == {<<>>, <<Label("", "", 1)>>, <<Label("a", "", 1)>>}

\* a database file without tables
InitPages ==
    /\ rows = [u \in Lots |-> NoRow]
    /\ MonitorIdle
    /\ DeliverIdle
    /\ LockIdle
    /\ OthersIdle({"pages"})
    /\ t_pages = <<>>
    /\ t_seeded = FALSE
    /\ t_seq = 0
    /\ t_last = NoPageCall
    /\ t_before = <<>>
    /\ t_seedings = 0

\* the call op with the arguments arg has ended in outcome
PageCall(op, outcome, arg) ==
    /\ t_last' = [op |-> op, outcome |-> outcome, arg |-> arg, seeded |-> t_seeded]
    /\ t_before' = t_pages

SeededRowIgnored(flag) == FALSE

\* if seeded_row: the select of lines 288-291 found the flag
SeededRow(flag) == flag

\* TrackedPageRepository(): _initialize and _ensure_seed(defaults).  The
\* inserts and the flag are one transaction: a repeated url among the
\* defaults raises IntegrityError and nothing is written
Construct(defaults) ==
    LET stripped == [i \in 1..Len(defaults) |-> strip(defaults[i])]
        normalized_defaults == SelectSeq(stripped, LAMBDA u : ~IsEmpty(u))
    IN  /\ UNCHANGED not_tvars
        /\ IF SeededRow(t_seeded)
           THEN /\ PageCall("construct", "ok", <<defaults>>)
                /\ UNCHANGED <<t_pages, t_seeded, t_seq, t_seedings>>
           ELSE IF normalized_defaults # <<>> /\ Len(t_pages) = 0
           THEN IF Cardinality(Range(normalized_defaults)) < Len(normalized_defaults)
                THEN /\ PageCall("construct", "IntegrityError", <<defaults>>)
                     /\ UNCHANGED <<t_pages, t_seeded, t_seq, t_seedings>>
                ELSE /\ t_seq + Len(normalized_defaults) <= MaxPageId
                     /\ PageCall("construct", "ok", <<defaults>>)
                     /\ t_pages' = SeedRows(normalized_defaults, t_seq, <<>>)
                     /\ t_seq' = t_seq + Len(normalized_defaults)
                     /\ t_seeded' = TRUE
                     /\ t_seedings' = t_seedings + 1
           ELSE /\ PageCall("construct", "ok", <<defaults>>)
                /\ t_seeded' = TRUE
                /\ UNCHANGED <<t_pages, t_seq, t_seedings>>

\* a TrackedPageRepository object exists: a construction has returned,
\* which leaves the flag set
Constructed == t_seeded

\* add_page(url, label), raw_url being the url argument; label: <<>> for
\* None
add_page(raw_url, label) ==
    LET normalized_url == strip(raw_url)
        final_label == IF label # <<>> /\ label[1].path # ""
                       THEN label[1]
                       ELSE _build_label(normalized_url, LabelsOf(t_pages))
    IN  /\ UNCHANGED not_tvars
        /\ Constructed
        /\ UNCHANGED <<t_seeded, t_seedings>>
        /\ IF IsEmpty(normalized_url) \/ ~startswith_http(normalized_url)
           THEN /\ PageCall("add_page", "ValueError", <<raw_url, label>>)
                /\ UNCHANGED <<t_pages, t_seq>>
           ELSE IF normalized_url \in UrlsOf(t_pages)
           THEN /\ PageCall("add_page", "ValueError", <<raw_url, label>>)
                /\ UNCHANGED <<t_pages, t_seq>>
           ELSE /\ t_seq < MaxPageId
                /\ PageCall("add_page", "ok", <<raw_url, label>>)
                /\ t_pages' = Append(t_pages, [id |-> t_seq + 1, label |-> final_label,
                                               url |-> normalized_url, enabled |-> TRUE])
                /\ t_seq' = t_seq + 1

\* the rows t with f applied to the row with id page_id
MapRow(t, page_id, f(_)) ==
    [i \in 1..Len(t) |-> IF t[i].id = page_id THEN f(t[i]) ELSE t[i]]

toggle_page_enables(page_id) ==
    /\ UNCHANGED not_tvars
    /\ Constructed
    /\ UNCHANGED <<t_seeded, t_seq, t_seedings>>
    /\ IF page_id \notin IdsOf(t_pages)
       THEN /\ PageCall("toggle_page", "ValueError", <<page_id>>)
            /\ UNCHANGED t_pages
       ELSE /\ PageCall("toggle_page", "ok", <<page_id>>)
            /\ t_pages' = MapRow(t_pages, page_id,
                                 LAMBDA r : [r EXCEPT !.enabled = TRUE])

\* toggle_page(page_id)
toggle_page(page_id) ==
    /\ UNCHANGED not_tvars
    /\ Constructed
    /\ UNCHANGED <<t_seeded, t_seq, t_seedings>>
    /\ IF page_id \notin IdsOf(t_pages)
       THEN /\ PageCall("toggle_page", "ValueError", <<page_id>>)
            /\ UNCHANGED t_pages
       ELSE /\ PageCall("toggle_page", "ok", <<page_id>>)
            /\ t_pages' = MapRow(t_pages, page_id,
                                 LAMBDA r : [r EXCEPT !.enabled = ~r.enabled])

\* remove_page(page_id)
remove_page(page_id) ==
    /\ UNCHANGED not_tvars
    /\ Constructed
    /\ UNCHANGED <<t_seeded, t_seq, t_seedings>>
    /\ IF page_id \notin IdsOf(t_pages)
       THEN /\ PageCall("remove_page", "ValueError", <<page_id>>)
            /\ UNCHANGED t_pages
       ELSE /\ PageCall("remove_page", "ok", <<page_id>>)
            /\ t_pages' = SelectSeq(t_pages, LAMBDA r : r.id # page_id)

NextPages ==
    \/ \E defaults \in DefaultLists : Construct(defaults)
    \/ \E raw_url \in AddUrls, label \in LabelArgs : add_page(raw_url, label)
    \/ \E page_id \in 1..MaxPageId : toggle_page(page_id)
    \/ \E page_id \in 1..MaxPageId : remove_page(page_id)

SpecPages == InitPages /\ [][NextPages]_vars

(***************************************************************************)
(* The sort order of a tracked page (SpecSort): _apply_order_to_url and    *)
(* update_sort on the pages of a seeded repository.                        *)
(***************************************************************************)
\* the segments of a query
MaxSegments == 2

\* a query segment: key=value, or key alone
Seg(key, eq, value) == [key |-> key, eq |-> eq, value |-> value]

\* f=1, ti1=6, the empty segment (of "a&&b" or "a&"), order=stop, order
QuerySegments ==
    {Seg("f", TRUE, "1"), Seg("ti1", TRUE, "6"), Seg("", FALSE, ""),
     Seg("order", TRUE, "stop"), Seg("order", FALSE, "")}

\* raw_query.split("&") gives <<>> for no string here, so the one empty
\* segment is not a query
Queries == SeqsUpTo(QuerySegments, MaxSegments) \ {<<Seg("", FALSE, "")>>}

\* the page urls: with or without "?", query and bare "#"
SortUrls ==
    {[pad |-> FALSE, scheme |-> "https://", rest |-> "a",
      q |-> q, query |-> query, h |-> h] :
        q \in BOOLEAN, query \in Queries, h \in BOOLEAN}
      \ {u \in [pad : {FALSE}, scheme : {"https://"}, rest : {"a"},
                 q : {FALSE}, query : Queries, h : BOOLEAN] : u.query # <<>>}

\* "&".join(preserved), as the query it is when split again
Join(preserved) == IF preserved = <<Seg("", FALSE, "")>> THEN <<>> ELSE preserved

\* urlunparse(parsed._replace(query = new_query)): the "?" is written for
\* a query that is not empty, a fragment that is empty is not written
urlunparse(u, new_query) ==
    [u EXCEPT !.q = (new_query # <<>>), !.query = new_query, !.h = FALSE]

\* quote_plus(order): the orders are letters and "_", which it keeps
quote_plus(order) == order

\* update_sort's valid_orders
valid_orders == {"stop", "create", "cost_asc", "cost_desc", "rating"}

\* the order argument None
None == "None"

\* not order
NoOrder(order) == order = None \/ order = ""

\* the url gets the order as its only query segment
_apply_order_drops_query(u, order) ==
    IF NoOrder(order) THEN urlunparse(u, <<>>)
    ELSE urlunparse(u, <<Seg("order", TRUE, quote_plus(order))>>)

\* _apply_order_to_url(url, order)
_apply_order_to_url(u, order) ==
    IF u.query = <<>>
    THEN IF NoOrder(order) THEN u
         ELSE urlunparse(u, <<Seg("order", TRUE, quote_plus(order))>>)
    ELSE LET preserved == SelectSeq(u.query, LAMBDA seg : seg.key # "order")
         IN  IF NoOrder(order) THEN urlunparse(u, Join(preserved))
             ELSE urlunparse(u, Join(Append(preserved,
                                            Seg("order", TRUE, quote_plus(order)))))

\* the page with order=create that a change of order can run into
SortedPage ==
    [pad |-> FALSE, scheme |-> "https://", rest |-> "a",
     q |-> TRUE, query |-> <<Seg("order", TRUE, "create")>>, h |-> FALSE]

\* settings.MONITOR_URLS: one page, or one page and the sorted page
SortDefaults ==
    {<<u>> : u \in SortUrls} \cup {<<u, SortedPage>> : u \in SortUrls}

\* the order arguments of update_sort: two of the valid orders, none, and
\* one outside the set
OrderArgs == {"create", "cost_desc", None, "", "unknown-sort"}

\* TrackedPageRepository() has seeded a new database with one of these
\* lists of defaults
InitSeeded(lists) ==
    /\ rows = [u \in Lots |-> NoRow]
    /\ MonitorIdle
    /\ DeliverIdle
    /\ LockIdle
    /\ OthersIdle({"pages"})
    /\ \E defaults \in lists :
          /\ t_pages = SeedRows(defaults, 0, <<>>)
          /\ t_seq = Len(defaults)
          /\ t_last = [op |-> "construct", outcome |-> "ok", arg |-> <<defaults>>,
                       seeded |-> FALSE]
    /\ t_seeded = TRUE
    /\ t_before = <<>>
    /\ t_seedings = 1

InitSort == InitSeeded(SortDefaults)

\* update_sort(page_id, order): the UPDATE of a url another page has
\* raises IntegrityError, which is not caught
update_sort(page_id, order) ==
    /\ UNCHANGED not_tvars
    /\ Constructed
    /\ UNCHANGED <<t_seeded, t_seq, t_seedings>>
    /\ IF ~NoOrder(order) /\ order \notin valid_orders
       THEN /\ PageCall("update_sort", "ValueError", <<page_id, order>>)
            /\ UNCHANGED t_pages
       ELSE IF page_id \notin IdsOf(t_pages)
       THEN /\ PageCall("update_sort", "ValueError", <<page_id, order>>)
            /\ UNCHANGED t_pages
       ELSE LET row == CHOOSE r \in Range(t_pages) : r.id = page_id
                new_url == _apply_order_to_url(row.url, order)
            IN  IF new_url # row.url /\ new_url \in UrlsOf(t_pages)
                THEN /\ PageCall("update_sort", "IntegrityError", <<page_id, order>>)
                     /\ UNCHANGED t_pages
                ELSE /\ PageCall("update_sort", "ok", <<page_id, order>>)
                     /\ t_pages' = MapRow(t_pages, page_id,
                                          LAMBDA r : [r EXCEPT !.url = new_url])

NextSort ==
    \E page_id \in 1..MaxPageId, order \in OrderArgs : update_sort(page_id, order)

SpecSort == InitSort /\ [][NextSort]_vars

(***************************************************************************)
(* The pages managed from the menu (SpecManage): toggle_page,              *)
(* update_label, update_sort and remove_page on the pages of a seeded      *)
(* repository.                                                             *)
(***************************************************************************)
\* settings.MONITOR_URLS here: a page without a query, alone or with the
\* sorted page
ManagedDefaults ==
    {<<urlunparse(SortedPage, <<>>)>>, <<urlunparse(SortedPage, <<>>), SortedPage>>}

InitManage == InitSeeded(ManagedDefaults)

\* the label arguments of update_label: a blank one and a name
RenameArgs == {Label("", "", 1), Label("renamed", "", 1)}

\* the order arguments here: a valid order, none, and one outside the set
ManageOrders == {"create", None, "unknown-sort"}

\* update_label(page_id, label): a label that is empty after strip() is
\* refused before the row is looked up
update_label(page_id, label) ==
    /\ UNCHANGED not_tvars
    /\ Constructed
    /\ UNCHANGED <<t_seeded, t_seq, t_seedings>>
    /\ IF label.path = ""
       THEN /\ PageCall("update_label", "ValueError", <<page_id, label>>)
            /\ UNCHANGED t_pages
       ELSE IF page_id \notin IdsOf(t_pages)
       THEN /\ PageCall("update_label", "ValueError", <<page_id, label>>)
            /\ UNCHANGED t_pages
       ELSE /\ PageCall("update_label", "ok", <<page_id, label>>)
            /\ t_pages' = MapRow(t_pages, page_id,
                                 LAMBDA r : [r EXCEPT !.label = label])

NextManage ==
    \/ \E page_id \in 1..MaxPageId : toggle_page(page_id)
    \/ \E page_id \in 1..MaxPageId, label \in RenameArgs : update_label(page_id, label)
    \/ \E page_id \in 1..MaxPageId, order \in ManageOrders : update_sort(page_id, order)
    \/ \E page_id \in 1..MaxPageId : remove_page(page_id)

SpecManage == InitManage /\ [][NextManage]_vars

(***************************************************************************)
(* Numbers as the settings hold them: Python int and float values, the     *)
(* float nan among them.  Every comparison with nan is false.              *)
(***************************************************************************)
Num(v) == [nan |-> FALSE, v |-> v]
NaN == [nan |-> TRUE, v |-> 0]

\* a < b, a <= b, a > b, a >= b
Lt(a, b) == ~a.nan /\ ~b.nan /\ a.v < b.v
Le(a, b) == ~a.nan /\ ~b.nan /\ a.v <= b.v
Gt(a, b) == Lt(b, a)
Ge(a, b) == Le(b, a)

(***************************************************************************)
(* AppSettingsRepository and config.settings (SpecSettings, SpecAdmins).   *)
(***************************************************************************)
\* the app_meta keys of the five scalar settings; the live field of a key
\* is CHECK_INTERVAL_MINUTES, REQUEST_TIMEOUT, REQUEST_MAX_RETRIES,
\* REQUEST_BACKOFF_FACTOR, REQUEST_DELAY_SECONDS
SettingKeys ==
    {"check_interval_minutes", "request_timeout", "request_max_retries",
     "request_backoff_factor", "request_delay_seconds"}

\* the limits of the setters
MinInterval == 3
MaxTimeout == 300
MaxRetries == 20
MaxBackoff == 10
MaxDelay == 60

\* self._default_timeout, _default_retries, _default_backoff, _default_delay
DefaultTimeout == 60
DefaultRetries == 5
DefaultBackoff == 2
DefaultDelay == 3

\* a value larger than every limit
Huge == 1000000

\* the default get_X falls back to
DefaultOf(key, default_interval) ==
    CASE key = "check_interval_minutes" -> Num(default_interval)
      [] key = "request_timeout" -> Num(DefaultTimeout)
      [] key = "request_max_retries" -> Num(DefaultRetries)
      [] key = "request_backoff_factor" -> Num(DefaultBackoff)
      [] key = "request_delay_seconds" -> Num(DefaultDelay)

\* the test at the end of get_X: minutes > 0, timeout > 0, retries >= 0,
\* backoff >= 0, delay >= 0
Usable(key, v) ==
    IF key \in {"check_interval_minutes", "request_timeout"}
    THEN Gt(v, Num(0))
    ELSE Ge(v, Num(0))

\* get_check_interval(), get_request_timeout(), ...: _get_meta(key), parsed
\* with int() or float(); str() of a value the setter wrote parses back to
\* the value ("nan" to nan)
get_setting(key, meta, default_interval) ==
    IF meta[key] = <<>> THEN DefaultOf(key, default_interval)
    ELSE IF Usable(key, meta[key][1]) THEN meta[key][1]
    ELSE DefaultOf(key, default_interval)

\* the tests at the head of set_X that raise ValueError
Rejected(key, v) ==
    CASE key = "check_interval_minutes" -> Le(v, Num(0)) \/ Lt(v, Num(MinInterval))
      [] key = "request_timeout" -> Le(v, Num(0)) \/ Gt(v, Num(MaxTimeout))
      [] key = "request_max_retries" -> Lt(v, Num(0)) \/ Gt(v, Num(MaxRetries))
      [] key = "request_backoff_factor" -> Lt(v, Num(0)) \/ Gt(v, Num(MaxBackoff))
      [] key = "request_delay_seconds" -> Lt(v, Num(0)) \/ Gt(v, Num(MaxDelay))

get_admin_ids_unmerged(base_admin_ids, extras) == base_admin_ids \o extras

\* get_admin_ids(): the base admins, then the extra ones, each id once
RECURSIVE get_admin_ids(_, _)
get_admin_ids(base_admin_ids, extras) ==
    LET all == base_admin_ids \o extras
    IN  IF all = <<>> THEN <<>>
        ELSE LET merged == get_admin_ids(SubSeq(all, 1, Len(all) - 1), <<>>)
             IN  IF all[Len(all)] \in Range(merged) THEN merged
                 ELSE Append(merged, all[Len(all)])

\* the values the setters are called with: int for the interval and the
\* retries, float for the others
ArgValues(key) ==
    CASE key = "check_interval_minutes" ->
            {Num(0), Num(2), Num(MinInterval), Num(5), Num(Huge)}
      [] key = "request_timeout" ->
            {Num(0), Num(5), Num(MaxTimeout), Num(MaxTimeout + 1), Num(Huge), NaN}
      [] key = "request_max_retries" ->
            {Num(0 - 1), Num(0), Num(MaxRetries + 1), Num(Huge)}
      [] key = "request_backoff_factor" ->
            {Num(0 - 1), Num(MaxBackoff), Num(MaxBackoff + 1), Num(Huge), NaN}
      [] key = "request_delay_seconds" ->
            {Num(0 - 1), Num(0), Num(MaxDelay + 1), Num(Huge)}

\* CHECK_INTERVAL_MINUTES and ADMIN_CHAT_IDS of the environment
EnvIntervals == {0, 2, 60}
EnvAdmins == {<<1>>, <<1, 2>>, <<1, 1>>}

\* the call op with the arguments arg has ended in outcome
SettingsCall(op, outcome, arg) ==
    /\ c_last' = [op |-> op, outcome |-> outcome, arg |-> arg]
    /\ c_before' = [meta |-> c_meta, live |-> c_live, extras |-> c_extras,
                    live_admins |-> c_live_admins]

\* sync_settings() of a repository with the defaults given
sync_settings(default_interval, base_admin_ids) ==
    /\ c_live' = [key \in SettingKeys |-> get_setting(key, c_meta, default_interval)]
    /\ c_live_admins' = get_admin_ids(base_admin_ids, c_extras)

\* Settings.reload() with the interval and the admins of the environment
\* (the other variables unset), then AppSettingsRepository()
Started(interval, admins) ==
    /\ interval > 0
    /\ c_env_admins' = admins
    /\ c_default_interval' = interval
    /\ c_base_admin_ids' = admins
    /\ sync_settings(interval, admins)

\* a new database file, and the process started on it
InitSettingsWith(intervals, admin_lists) ==
    /\ rows = [u \in Lots |-> NoRow]
    /\ MonitorIdle
    /\ DeliverIdle
    /\ LockIdle
    /\ OthersIdle({"settings"})
    /\ c_meta = [key \in SettingKeys |-> <<>>]
    /\ c_extras = <<>>
    /\ c_last = [op |-> "start", outcome |-> "ok", arg |-> <<>>]
    /\ c_before = <<>>
    /\ \E interval \in intervals, admins \in admin_lists :
          /\ interval > 0
          /\ c_env_admins = admins
          /\ c_default_interval = interval
          /\ c_base_admin_ids = admins
          /\ c_live = [key \in SettingKeys |-> DefaultOf(key, interval)]
          /\ c_live_admins = get_admin_ids(admins, <<>>)

InitSettings == InitSettingsWith(EnvIntervals, {<<1>>})

\* the process is started again on the database
ProcessStart(interval, admins) ==
    /\ UNCHANGED not_cvars
    /\ Started(interval, admins)
    /\ SettingsCall("start", "ok", <<>>)
    /\ UNCHANGED <<c_meta, c_extras>>

\* AppSettingsRepository() once more in the running process: the defaults
\* are read from the live settings
ConstructSettings ==
    /\ UNCHANGED not_cvars
    /\ c_default_interval' = c_live["check_interval_minutes"].v
    /\ c_base_admin_ids' = c_live_admins
    /\ sync_settings(c_live["check_interval_minutes"].v, c_live_admins)
    /\ SettingsCall("construct", "ok", <<>>)
    /\ UNCHANGED <<c_meta, c_extras, c_env_admins>>

\* the live field is assigned before the value is tested
SetWritesLiveFirst(key, v) ==
    /\ UNCHANGED not_cvars
    /\ UNCHANGED <<c_extras, c_live_admins, c_default_interval, c_base_admin_ids,
                   c_env_admins>>
    /\ c_live' = [c_live EXCEPT ![key] = v]
    /\ IF Rejected(key, v)
       THEN /\ SettingsCall("set", "ValueError", <<key, v>>)
            /\ UNCHANGED c_meta
       ELSE /\ SettingsCall("set", "ok", <<key, v>>)
            /\ c_meta' = [c_meta EXCEPT ![key] = <<v>>]

\* set_check_interval, set_request_timeout, set_request_max_retries,
\* set_request_backoff_factor, set_request_delay_seconds
Set(key, v) ==
    /\ UNCHANGED not_cvars
    /\ UNCHANGED <<c_extras, c_live_admins, c_default_interval, c_base_admin_ids,
                   c_env_admins>>
    /\ IF Rejected(key, v)
       THEN /\ SettingsCall("set", "ValueError", <<key, v>>)
            /\ UNCHANGED <<c_meta, c_live>>
       ELSE /\ SettingsCall("set", "ok", <<key, v>>)
            /\ c_meta' = [c_meta EXCEPT ![key] = <<v>>]
            /\ c_live' = [c_live EXCEPT ![key] = v]

NextSettings ==
    \/ \E interval \in EnvIntervals : ProcessStart(interval, <<1>>)
    \/ ConstructSettings
    \/ \E key \in SettingKeys : \E v \in ArgValues(key) : Set(key, v)

SpecSettings == InitSettings /\ [][NextSettings]_vars

\* the largest chat id an admin command is given
MaxAdminId == 3

\* the chat_id of add_admin and remove_admin: text that int() refuses, or
\* an integer
AdminArgs == {<<>>} \cup {<<n>> : n \in 0..MaxAdminId}

\* list.remove(x): the first occurrence is taken out
list_remove(list, x) ==
    LET i == CHOOSE k \in 1..Len(list) :
                 list[k] = x /\ \A j \in 1..(k - 1) : list[j] # x
    IN  SubSeq(list, 1, i - 1) \o SubSeq(list, i + 1, Len(list))

InitAdmins == InitSettingsWith({60}, EnvAdmins)

\* the extra admins are saved, then settings.ADMIN_CHAT_IDS = get_admin_ids()
SaveAdmins(op, arg, extras) ==
    /\ c_extras' = extras
    /\ c_live_admins' = get_admin_ids(c_base_admin_ids, extras)
    /\ SettingsCall(op, "ok", arg)

AdminRefused(op, arg) ==
    /\ SettingsCall(op, "ValueError", arg)
    /\ UNCHANGED <<c_extras, c_live_admins>>

add_admin(arg) ==
    /\ UNCHANGED not_cvars
    /\ UNCHANGED <<c_meta, c_live, c_default_interval, c_base_admin_ids,
                   c_env_admins>>
    /\ IF arg = <<>> THEN AdminRefused("add_admin", arg)
       ELSE IF arg[1] <= 0 THEN AdminRefused("add_admin", arg)
       ELSE IF arg[1] \in Range(get_admin_ids(c_base_admin_ids, c_extras))
       THEN AdminRefused("add_admin", arg)
       ELSE SaveAdmins("add_admin", arg, Append(c_extras, arg[1]))

remove_admin(arg) ==
    /\ UNCHANGED not_cvars
    /\ UNCHANGED <<c_meta, c_live, c_default_interval, c_base_admin_ids,
                   c_env_admins>>
    /\ IF arg = <<>> THEN AdminRefused("remove_admin", arg)
       ELSE IF arg[1] <= 0 THEN AdminRefused("remove_admin", arg)
       ELSE IF arg[1] \in Range(c_base_admin_ids)
       THEN AdminRefused("remove_admin", arg)
       ELSE IF arg[1] \notin Range(c_extras)
       THEN AdminRefused("remove_admin", arg)
       ELSE SaveAdmins("remove_admin", arg, list_remove(c_extras, arg[1]))

NextAdmins ==
    \/ \E admins \in EnvAdmins : ProcessStart(60, admins)
    \/ ConstructSettings
    \/ \E arg \in AdminArgs : add_admin(arg)
    \/ \E arg \in AdminArgs : remove_admin(arg)

SpecAdmins == InitAdmins /\ [][NextAdmins]_vars

(***************************************************************************)
(* Parser: get_page_content, the lot pages parse_items loads, and the rate *)
(* limit (SpecFetch).  Tasks of one event loop share the Parser: a task    *)
(* runs without interruption from one await to the next.                   *)
(***************************************************************************)
\* the latest time of the clock
MaxClock == 3

\* settings.REQUEST_DELAY_SECONDS, in ticks of the clock
Delay == 2

\* the most cards of a catalogue page
MaxCards == 1

\* how a request ends: a body, asyncio.TimeoutError,
\* aiohttp.ClientConnectionError, aiohttp.ClientResponseError (an HTTP
\* error status), another aiohttp.ClientError
Outcomes == {"ok", "timeout", "connection", "status", "client"}
Failures == Outcomes \ {"ok"}

\* self.last_error = None
ClearedError(error) == <<>>

\* a time span, as far as it matters: up to the delay
Capped(span) == IF span > Delay THEN Delay ELSE span

\* session.get(...) is entered: a request to domain d starts now, the
\* last one to d having started f_started[d] and the last one that went
\* through _apply_rate_limit at stamp
Request(d, kind, stamp) ==
    /\ f_started' = [f_started EXCEPT ![d] = <<f_clock>>]
    /\ f_pair' = IF f_started[d] = <<>> THEN f_pair
                 ELSE <<[kind |-> kind,
                         gap |-> Capped(f_clock - f_started[d][1]),
                         stamped_gap |-> IF stamp = <<>> THEN <<>>
                                         ELSE <<Capped(f_clock - stamp[1])>>]>>

\* the end of _apply_rate_limit and what follows it up to the await of
\* session.get: the time is stamped, the lock released, get_page_content
\* resets the error state, the request starts
Go(t) ==
    /\ f_last_request_time' =
          [f_last_request_time EXCEPT ![f_domain[t]] = <<f_clock>>]
    /\ f_lock' = <<>>
    /\ Request(f_domain[t], f_kind[t], f_last_request_time[f_domain[t]])
    /\ f_pc' = [f_pc EXCEPT ![t] = "inflight"]
    /\ IF f_kind[t] = "page"
       THEN /\ f_last_error' = ClearedError(f_last_error)
            /\ f_last_page_load_failed' = FALSE
            /\ f_disturbed' = [f_disturbed EXCEPT ![t] = FALSE]
       ELSE UNCHANGED <<f_last_error, f_last_page_load_failed, f_disturbed>>

InitFetch ==
    /\ rows = [u \in Lots |-> NoRow]
    /\ MonitorIdle
    /\ DeliverIdle
    /\ LockIdle
    /\ OthersIdle({"fetch"})
    /\ FetchIdle

\* time passes
Tick ==
    /\ UNCHANGED not_fvars
    /\ f_clock < MaxClock
    /\ f_clock' = f_clock + 1
    /\ UNCHANGED <<f_pc, f_kind, f_domain, f_wake, f_lock, f_last_request_time,
                   f_last_error, f_last_page_load_failed, f_cards, f_disturbed,
                   f_started, f_pair, f_result>>

\* get_items_from_url(url) is called: get_page_content awaits
\* _apply_rate_limit
StartPage(t, d) ==
    /\ UNCHANGED not_fvars
    /\ f_pc[t] = "idle"
    /\ f_pc' = [f_pc EXCEPT ![t] = "waiting"]
    /\ f_kind' = [f_kind EXCEPT ![t] = "page"]
    /\ f_domain' = [f_domain EXCEPT ![t] = d]
    /\ UNCHANGED <<f_clock, f_wake, f_lock, f_last_request_time, f_last_error,
                   f_last_page_load_failed, f_cards, f_disturbed, f_started,
                   f_pair, f_result>>

\* _apply_rate_limit takes the lock: it sleeps with the lock held when the
\* last stamped request to the domain is less than the delay ago
Acquire(t) ==
    /\ UNCHANGED not_fvars
    /\ f_pc[t] = "waiting"
    /\ f_lock = <<>>
    /\ LET last == f_last_request_time[f_domain[t]]
       IN  IF last # <<>> /\ f_clock - last[1] < Delay
           THEN /\ f_lock' = <<t>>
                /\ f_pc' = [f_pc EXCEPT ![t] = "sleeping"]
                /\ f_wake' = [f_wake EXCEPT ![t] =
                                 f_clock + (Delay - (f_clock - last[1]))]
                /\ UNCHANGED <<f_last_request_time, f_last_error,
                               f_last_page_load_failed, f_disturbed, f_started,
                               f_pair>>
           ELSE /\ Go(t)
                /\ UNCHANGED f_wake
    /\ UNCHANGED <<f_clock, f_kind, f_domain, f_cards, f_result>>

\* asyncio.sleep(sleep_time) is over
Wake(t) ==
    /\ UNCHANGED not_fvars
    /\ f_pc[t] = "sleeping"
    /\ f_clock >= f_wake[t]
    /\ Go(t)
    /\ UNCHANGED <<f_clock, f_kind, f_domain, f_wake, f_cards, f_result>>

\* the get_page_content call of t returns
Returned(t, returned, error, failed) ==
    f_result' = <<[task |-> t, returned |-> returned, error |-> error,
                   failed |-> failed, disturbed |-> f_disturbed[t],
                   after |-> IF f_result = <<>> THEN "nothing"
                             ELSE f_result[1].returned]>>

\* an except clause of get_page_content: the error is recorded, None
\* returned, and get_items_from_url returns []
Fail(t, outcome) ==
    /\ f_last_error' = <<outcome>>
    /\ f_last_page_load_failed' = TRUE
    /\ f_disturbed' =
          [u \in Fetchers |->
             IF u # t /\ f_kind[u] = "page" /\ f_pc[u] \in {"inflight", "reading"}
             THEN TRUE ELSE f_disturbed[u]]
    /\ Returned(t, "None", <<outcome>>, TRUE)
    /\ f_pc' = [f_pc EXCEPT ![t] = "idle"]
    /\ UNCHANGED f_cards

\* the response of the page request is there: raise_for_status()
PageRespond(t, outcome) ==
    /\ UNCHANGED not_fvars
    /\ f_pc[t] = "inflight"
    /\ f_kind[t] = "page"
    /\ IF outcome = "ok"
       THEN /\ f_pc' = [f_pc EXCEPT ![t] = "reading"]
            /\ UNCHANGED <<f_last_error, f_last_page_load_failed, f_cards,
                           f_disturbed, f_result>>
       ELSE Fail(t, outcome)
    /\ UNCHANGED <<f_clock, f_kind, f_domain, f_wake, f_lock, f_last_request_time,
                   f_started, f_pair>>

\* await response.text() is over: the content is returned and parse_items
\* finds n cards, or reading the body has failed
PageRead(t, outcome, n) ==
    /\ UNCHANGED not_fvars
    /\ f_pc[t] = "reading"
    /\ f_kind[t] = "page"
    /\ outcome # "status"
    /\ IF outcome = "ok"
       THEN /\ Returned(t, "content", f_last_error, f_last_page_load_failed)
            /\ f_pc' = [f_pc EXCEPT ![t] = "parsing"]
            /\ f_cards' = [f_cards EXCEPT ![t] = n]
            /\ UNCHANGED <<f_last_error, f_last_page_load_failed, f_disturbed>>
       ELSE Fail(t, outcome)
    /\ UNCHANGED <<f_clock, f_kind, f_domain, f_wake, f_lock, f_last_request_time,
                   f_started, f_pair>>

\* parse_items: _load_full_item_details(link) of the next card awaits
\* _apply_rate_limit
NextCard(t, d) ==
    /\ UNCHANGED not_fvars
    /\ f_pc[t] = "parsing"
    /\ f_cards[t] > 0
    /\ f_cards' = [f_cards EXCEPT ![t] = f_cards[t] - 1]
    /\ f_pc' = [f_pc EXCEPT ![t] = "waiting"]
    /\ f_kind' = [f_kind EXCEPT ![t] = "detail"]
    /\ f_domain' = [f_domain EXCEPT ![t] = d]
    /\ UNCHANGED <<f_clock, f_wake, f_lock, f_last_request_time, f_last_error,
                   f_last_page_load_failed, f_disturbed, f_started, f_pair,
                   f_result>>

\* parse_items returns
ParseDone(t) ==
    /\ UNCHANGED not_fvars
    /\ f_pc[t] = "parsing"
    /\ f_cards[t] = 0
    /\ f_pc' = [f_pc EXCEPT ![t] = "idle"]
    /\ UNCHANGED <<f_clock, f_kind, f_domain, f_wake, f_lock, f_last_request_time,
                   f_last_error, f_last_page_load_failed, f_cards, f_disturbed,
                   f_started, f_pair, f_result>>

\* the request of _load_full_item_details ends.  With a lot page that has
\* a title the card is done.  A ClientError, or a page without a title,
\* makes it return None: parse_items calls _load_item_gallery(link), which
\* enters session.get at once.  A timeout is no ClientError: it ends the
\* card in the except clause of parse_items.
DetailRespond(t, outcome, found) ==
    /\ UNCHANGED not_fvars
    /\ f_pc[t] = "inflight"
    /\ f_kind[t] = "detail"
    /\ IF (outcome = "ok" /\ found) \/ outcome = "timeout"
       THEN /\ f_pc' = [f_pc EXCEPT ![t] = "parsing"]
            /\ UNCHANGED <<f_started, f_pair>>
       ELSE /\ f_pc' = [f_pc EXCEPT ![t] = "gallery"]
            /\ Request(f_domain[t], "gallery", <<>>)
    /\ UNCHANGED <<f_clock, f_kind, f_domain, f_wake, f_lock, f_last_request_time,
                   f_last_error, f_last_page_load_failed, f_cards, f_disturbed,
                   f_result>>

\* the request of _load_item_gallery ends
GalleryRespond(t) ==
    /\ UNCHANGED not_fvars
    /\ f_pc[t] = "gallery"
    /\ f_pc' = [f_pc EXCEPT ![t] = "parsing"]
    /\ UNCHANGED <<f_clock, f_kind, f_domain, f_wake, f_lock, f_last_request_time,
                   f_last_error, f_last_page_load_failed, f_cards, f_disturbed,
                   f_started, f_pair, f_result>>

\* get_page_content calls of two tasks with one site
NextFetch ==
    \/ Tick
    \/ \E t \in Fetchers : StartPage(t, "ay.by")
    \/ \E t \in Fetchers : Acquire(t)
    \/ \E t \in Fetchers : Wake(t)
    \/ \E t \in Fetchers, outcome \in Outcomes : PageRespond(t, outcome)
    \/ \E t \in Fetchers, outcome \in Outcomes : PageRead(t, outcome, 0)
    \/ \E t \in Fetchers : ParseDone(t)

SpecFetch == InitFetch /\ [][NextFetch]_vars

\* how the requests of the pacing end
PacingOutcomes == {"ok", "client", "timeout"}

\* get_items_from_url calls of two tasks with two sites: the pages, the
\* lot pages of their cards and the gallery requests
NextPacing ==
    \/ Tick
    \/ \E t \in Fetchers, d \in Domains : StartPage(t, d)
    \/ \E t \in Fetchers : Acquire(t)
    \/ \E t \in Fetchers : Wake(t)
    \/ \E t \in Fetchers : PageRespond(t, "ok")
    \/ \E t \in Fetchers, n \in 0..MaxCards : PageRead(t, "ok", n)
    \/ \E t \in Fetchers, d \in Domains : NextCard(t, d)
    \/ \E t \in Fetchers : ParseDone(t)
    \/ \E t \in Fetchers, outcome \in PacingOutcomes, found \in BOOLEAN :
          DetailRespond(t, outcome, found)
    \/ \E t \in Fetchers : GalleryRespond(t)

SpecPacing == InitFetch /\ [][NextPacing]_vars

(***************************************************************************)
(* Monitor.check_new_items (SpecSweep, SpecOverlap): the sweeps of the     *)
(* startup call and of the scheduler over the tracked pages, each          *)
(* _check_url call in the steps between its awaits, and the commands that  *)
(* change the tracked pages and the item history meanwhile.                *)
(***************************************************************************)
\* the most timestamps kept apart in an entry of _failed_pages
MaxFailureCount == 1

\* source_url of the rows /resend saves
ResendSource == "resend_command"

\* the listing lists a scrape returns here: every listing at most once
Scrapes == {items \in SeqsUpTo(SweepLots, Cardinality(SweepLots)) :
               \A i, j \in 1..Len(items) : items[i] = items[j] => i = j}

list_pages(table) == table

\* the exceptions get_page_content records as a page-load failure
LoadErrors == {"timeout", "connection"}

MessageWithoutUrl(page_url, error) ==
    [kind |-> "page_load", page |-> "", error |-> error]

\* the message of lines 182-187, with "URL: {url}" and
\* "Ошибка: {self.parser.last_error}"
PageLoadMessage(page_url, error) ==
    [kind |-> "page_load", page |-> page_url, error |-> error]

\* the message of lines 142-148, with the url and the exception
CheckErrorMessage(page_url) ==
    [kind |-> "check_error", page |-> page_url, error |-> "exc"]

\* get_enabled_pages(): WHERE enabled = 1 ORDER BY created_at ASC, id ASC
get_enabled_pages(table) == SelectSeq(table, LAMBDA page : page.enabled)

\* get_enabled_urls(): the url column of the same rows
get_enabled_urls(table) ==
    [i \in 1..Len(get_enabled_pages(table)) |-> get_enabled_pages(table)[i].url]

\* the page url _check_url of task t is called with
CheckedUrl(t) == w_pages[t][w_i[t]].url

\* a fresh database with these tracked pages
InitTracking(table) ==
    /\ rows = [u \in Lots |-> NoRow]
    /\ MonitorIdle
    /\ DeliverIdle
    /\ LockIdle
    /\ OthersIdle({"sweep"})
    /\ w_table = table
    /\ w_rows = [u \in Lots |-> NoRow]
    /\ w_failed = [p \in TrackedUrls |-> 0]
    /\ w_flag = FALSE
    /\ w_error = "None"
    /\ w_alert = [t \in Tasks |-> <<>>]
    /\ w_pc = [t \in Tasks |-> "idle"]
    /\ w_pages = [t \in Tasks |-> <<>>]
    /\ w_i = [t \in Tasks |-> 0]
    /\ w_items = [t \in Tasks |-> <<>>]
    /\ w_new = [t \in Tasks |-> <<>>]
    /\ w_sent = [t \in Tasks |-> {}]
    /\ w_own = [t \in Tasks |-> "None"]
    /\ w_start = [t \in Tasks |-> <<>>]
    /\ w_checked = [t \in Tasks |-> <<>>]
    /\ w_seen = [p \in TrackedUrls |-> {}]
    /\ w_fresh = {}
    /\ w_resent = {}
    /\ w_note = <<>>
    /\ w_last = <<>>

\* two tracked pages, the second enabled or not
InitSweep ==
    \E enabled \in BOOLEAN :
       InitTracking(<<[id |-> 1, url |-> "p1", enabled |-> TRUE],
                      [id |-> 2, url |-> "p2", enabled |-> enabled]>>)

\* one tracked page
InitOnePage == InitTracking(<<[id |-> 1, url |-> "p1", enabled |-> TRUE]>>)

\* check_new_items() is called: pages = get_enabled_pages()
SweepStart(t) ==
    /\ UNCHANGED not_wvars
    /\ w_pc[t] \in {"idle", "done", "cancelled"}
    /\ w_pages' = [w_pages EXCEPT ![t] = get_enabled_pages(w_table)]
    /\ w_start' = [w_start EXCEPT ![t] = w_table]
    /\ w_checked' = [w_checked EXCEPT ![t] = <<>>]
    /\ w_i' = [w_i EXCEPT ![t] = 0]
    /\ w_pc' = [w_pc EXCEPT ![t] = "loop"]
    /\ UNCHANGED <<w_table, w_rows, w_failed, w_flag, w_error, w_alert, w_items, w_new, w_sent,
                   w_own, w_seen, w_fresh, w_resent, w_note, w_last>>

\* the for loop: _check_url(page.url, page.label) of the next page is
\* called and awaits the scrape, whose get_page_content resets the flag of
\* the parser; after the last page the sweep is over
NextPage(t) ==
    /\ UNCHANGED not_wvars
    /\ w_pc[t] = "loop"
    /\ IF w_i[t] < Len(w_pages[t])
       THEN /\ w_i' = [w_i EXCEPT ![t] = w_i[t] + 1]
            /\ w_checked' = [w_checked EXCEPT ![t] =
                                Append(w_checked[t], w_pages[t][w_i[t] + 1].url)]
            /\ w_pc' = [w_pc EXCEPT ![t] = "fetch"]
            /\ w_flag' = FALSE
            /\ w_error' = "None"
            /\ w_alert' = [w_alert EXCEPT ![t] = <<>>]
            /\ w_items' = [w_items EXCEPT ![t] = <<>>]
            /\ w_new' = [w_new EXCEPT ![t] = <<>>]
            /\ w_sent' = [w_sent EXCEPT ![t] = {}]
            /\ w_own' = [w_own EXCEPT ![t] = "None"]
       ELSE /\ w_pc' = [w_pc EXCEPT ![t] = "done"]
            /\ UNCHANGED <<w_i, w_checked, w_flag, w_error, w_alert, w_items, w_new, w_sent, w_own>>
    /\ UNCHANGED <<w_table, w_rows, w_failed, w_pages, w_start, w_seen, w_fresh,
                   w_resent, w_note, w_last>>

EntryKeptAfterSuccess(outcome, entry, count) ==
    IF outcome = "True" THEN entry ELSE count

\* lines 127-133 and 140: after True the entry of the page is deleted,
\* otherwise _track_failure leaves count timestamps in it
TrackOutcome(outcome, entry, count) ==
    IF outcome = "True" THEN 0 ELSE count

\* the _check_url call of t is over with outcome: "True", "False", or
\* "raised" for an exception.  check_new_items deletes the entry of the
\* page from _failed_pages after True, and calls _track_failure otherwise,
\* which leaves count timestamps in the entry; then the loop goes on
EndCheck(t, outcome, seeded, alerts, count, table, sent) ==
    /\ w_last' = <<[task |-> t, page |-> CheckedUrl(t), outcome |-> outcome,
                    seeded |-> seeded, alerts |-> alerts,
                    notified |-> sent, own |-> w_own[t],
                    steady_before |-> w_seen[CheckedUrl(t)] # {},
                    fresh |-> CheckedUrl(t) \in w_fresh,
                    known |-> get_known_urls(w_rows, CheckedUrl(t)),
                    scraped |-> Range(w_items[t]),
                    saved |-> \A u \in Range(w_items[t]) : table[u] = CheckedUrl(t)]>>
    /\ w_rows' = table
    /\ w_failed' = [w_failed EXCEPT ![CheckedUrl(t)] =
                       TrackOutcome(outcome, w_failed[CheckedUrl(t)], count)]
    /\ w_fresh' = IF outcome = "True" THEN w_fresh \ {CheckedUrl(t)} ELSE w_fresh
    /\ w_pc' = [w_pc EXCEPT ![t] = "loop"]

\* the timestamps _track_failure can leave in the entry of a page: the new
\* one, and those of the ones before that are not older than the cutoff
TrackedCounts(t) ==
    1..(IF w_failed[CheckedUrl(t)] < MaxFailureCount
        THEN w_failed[CheckedUrl(t)] + 1 ELSE MaxFailureCount)

\* the fetch of the page fails: get_page_content sets the flag of the
\* parser and get_items_from_url returns []; _check_url reads the flag and
\* awaits send_critical_alert
FetchFail(t, exc) ==
    /\ UNCHANGED not_wvars
    /\ w_pc[t] = "fetch"
    /\ w_flag' = TRUE
    /\ w_error' = exc
    /\ w_own' = [w_own EXCEPT ![t] = exc]
    /\ w_alert' = [w_alert EXCEPT ![t] = <<PageLoadMessage(CheckedUrl(t), exc)>>]
    /\ w_pc' = [w_pc EXCEPT ![t] = "alert"]
    /\ UNCHANGED <<w_table, w_rows, w_failed, w_pages, w_i, w_items, w_new, w_sent,
                   w_start, w_checked, w_seen, w_fresh, w_resent, w_note, w_last>>

\* the page is fetched: get_items_from_url goes on to read and parse it,
\* awaiting the body and the lot pages
FetchOk(t, items) ==
    /\ UNCHANGED not_wvars
    /\ w_pc[t] = "fetch"
    /\ w_items' = [w_items EXCEPT ![t] = items]
    /\ w_pc' = [w_pc EXCEPT ![t] = "parse"]
    /\ UNCHANGED <<w_table, w_rows, w_failed, w_flag, w_error, w_alert, w_pages, w_i, w_new, w_sent,
                   w_own, w_start, w_checked, w_seen, w_fresh, w_resent, w_note,
                   w_last>>

\* get_items_from_url returns the listings.  Lines 181-237 up to the
\* next await: the flag of the parser is read, then the listings are
\* compared with the known urls of the page
Parsed(t, count) ==
    /\ UNCHANGED not_wvars
    /\ w_pc[t] = "parse"
    /\ count \in TrackedCounts(t)
    /\ LET items == w_items[t]
           known == get_known_urls(w_rows, CheckedUrl(t))
           new == NewItems(items, known)
       IN  IF w_flag
           THEN /\ w_pc' = [w_pc EXCEPT ![t] = "alert"]
                /\ w_alert' = [w_alert EXCEPT ![t] =
                                  <<PageLoadMessage(CheckedUrl(t), w_error)>>]
                /\ UNCHANGED <<w_rows, w_failed, w_new, w_seen, w_fresh, w_last>>
           ELSE IF items = <<>>
           THEN /\ EndCheck(t, "False", FALSE, <<>>, count, w_rows, {})
                /\ UNCHANGED <<w_new, w_seen, w_alert>>
           ELSE IF known = {}
           THEN /\ EndCheck(t, "True", TRUE, <<>>, count,
                             save_items(w_rows, items, CheckedUrl(t)), {})
                /\ w_seen' = [w_seen EXCEPT ![CheckedUrl(t)] = @ \cup Range(items)]
                /\ UNCHANGED <<w_new, w_alert>>
           ELSE IF new = <<>>
           THEN /\ EndCheck(t, "True", FALSE, <<>>, count,
                             save_items(w_rows, items, CheckedUrl(t)), {})
                /\ UNCHANGED <<w_new, w_seen, w_alert>>
           ELSE /\ w_new' = [w_new EXCEPT ![t] = new]
                /\ w_pc' = [w_pc EXCEPT ![t] = "send"]
                /\ UNCHANGED <<w_rows, w_failed, w_seen, w_fresh, w_last, w_alert>>
    /\ UNCHANGED <<w_table, w_flag, w_error, w_pages, w_i, w_items, w_sent, w_own, w_start,
                   w_checked, w_resent, w_note>>

\* send_critical_alert of line 188 returns; return False
AlertDone(t, count) ==
    /\ UNCHANGED not_wvars
    /\ w_pc[t] = "alert"
    /\ count \in TrackedCounts(t)
    /\ EndCheck(t, "False", FALSE, w_alert[t], count, w_rows, {})
    /\ UNCHANGED <<w_table, w_flag, w_error, w_alert, w_pages, w_i, w_items, w_new, w_sent, w_own,
                   w_start, w_checked, w_seen, w_resent, w_note>>

\* _send_notification of the next new listing returns; after the last one
\* save_items(current_items, source_url=url) and return True
Notify(t, count) ==
    /\ UNCHANGED not_wvars
    /\ w_pc[t] = "send"
    /\ count \in TrackedCounts(t)
    /\ w_sent' = [w_sent EXCEPT ![t] = @ \cup {Head(w_new[t])}]
    /\ w_new' = [w_new EXCEPT ![t] = Tail(w_new[t])]
    /\ w_note' = <<[task |-> t, page |-> CheckedUrl(t), lot |-> Head(w_new[t]),
                    seen |-> Head(w_new[t]) \in w_seen[CheckedUrl(t)],
                    resent |-> Head(w_new[t]) \in w_resent]>>
    /\ w_seen' = [w_seen EXCEPT ![CheckedUrl(t)] = @ \cup {Head(w_new[t])}]
    /\ IF Tail(w_new[t]) = <<>>
       THEN EndCheck(t, "True", FALSE, <<>>, count,
                     save_items(w_rows, w_items[t], CheckedUrl(t)),
                     w_sent[t] \cup {Head(w_new[t])})
       ELSE UNCHANGED <<w_rows, w_failed, w_pc, w_fresh, w_last>>
    /\ UNCHANGED <<w_table, w_flag, w_error, w_alert, w_pages, w_i, w_items, w_own, w_start,
                   w_checked, w_resent>>

\* _check_url raises an exception other than CancelledError, in the
\* scrape or in _send_notification or save_items (send_critical_alert
\* raises none): the except clause of lines 138-150 tracks the failure and
\* sends an alert
Raise(t, count) ==
    /\ UNCHANGED not_wvars
    /\ w_pc[t] \in {"fetch", "parse", "send"}
    /\ count \in TrackedCounts(t)
    /\ EndCheck(t, "raised", FALSE, <<CheckErrorMessage(CheckedUrl(t))>>, count,
                w_rows, w_sent[t])
    /\ UNCHANGED <<w_table, w_flag, w_error, w_alert, w_pages, w_i, w_items, w_new, w_sent, w_own,
                   w_start, w_checked, w_seen, w_resent, w_note>>

\* the task of the sweep is cancelled at an await of _check_url:
\* CancelledError is raised again (lines 135-137)
CancelSweep(t) ==
    /\ UNCHANGED not_wvars
    /\ w_pc[t] \in {"fetch", "parse", "alert", "send"}
    /\ w_pc' = [w_pc EXCEPT ![t] = "cancelled"]
    /\ UNCHANGED <<w_table, w_rows, w_failed, w_flag, w_error, w_alert, w_pages, w_i, w_items, w_new,
                   w_sent, w_own, w_start, w_checked, w_seen, w_fresh, w_resent,
                   w_note, w_last>>

\* toggle_page(page_id) from the menu
SweepToggle(page_id) ==
    /\ UNCHANGED not_wvars
    /\ \E i \in 1..Len(w_table) : w_table[i].id = page_id
    /\ w_table' = [i \in 1..Len(w_table) |->
                     IF w_table[i].id = page_id
                     THEN [w_table[i] EXCEPT !.enabled = ~w_table[i].enabled]
                     ELSE w_table[i]]
    /\ UNCHANGED <<w_rows, w_failed, w_flag, w_error, w_alert, w_pc, w_pages, w_i, w_items, w_new,
                   w_sent, w_own, w_start, w_checked, w_seen, w_fresh, w_resent,
                   w_note, w_last>>

\* the url update_sort gives the page with this url: the sort order
\* "create" is set on p1 and cleared from it again
Resorted(page_url) ==
    IF page_url = "p1" THEN "p1?order=create"
    ELSE IF page_url = "p1?order=create" THEN "p1"
    ELSE page_url

\* update_sort(page_id, order) from the menu changes the url of the page
SweepUpdateSort(page_id) ==
    /\ UNCHANGED not_wvars
    /\ \E i \in 1..Len(w_table) :
          /\ w_table[i].id = page_id
          /\ Resorted(w_table[i].url) # w_table[i].url
          /\ w_table' = [w_table EXCEPT ![i].url = Resorted(w_table[i].url)]
          /\ w_fresh' = (w_fresh \ {w_table[i].url}) \cup {Resorted(w_table[i].url)}
    /\ UNCHANGED <<w_rows, w_failed, w_flag, w_error, w_alert, w_pc, w_pages, w_i, w_items, w_new,
                   w_sent, w_own, w_start, w_checked, w_seen, w_resent, w_note,
                   w_last>>

\* /resend has sent the listing u to the admin who asked for it:
\* item_repository.save_items([item], source_url="resend_command")
Resend(u) ==
    /\ UNCHANGED not_wvars
    /\ w_rows' = save_items(w_rows, <<u>>, ResendSource)
    /\ w_resent' = w_resent \cup {u}
    /\ UNCHANGED <<w_table, w_failed, w_flag, w_error, w_alert, w_pc, w_pages, w_i, w_items, w_new,
                   w_sent, w_own, w_start, w_checked, w_seen, w_fresh, w_note,
                   w_last>>

\* the steps of the sweep of task t, with these scrapes and these numbers
\* of timestamps
SweepSteps(t, scrapes, counts) ==
    \/ SweepStart(t)
    \/ NextPage(t)
    \/ \E exc \in LoadErrors : FetchFail(t, exc)
    \/ \E items \in scrapes : FetchOk(t, items)
    \/ \E count \in counts : Parsed(t, count)
    \/ \E count \in counts : AlertDone(t, count)
    \/ \E count \in counts : Notify(t, count)

\* a catalogue that is empty, then lists a, then a and b
GrowingScrapes == {<<>>, <<"a">>, <<"a", "b">>}

\* one sweep at a time, which may fail, raise and be cancelled, and the
\* second page switched on and off meanwhile
NextSweep ==
    \/ SweepSteps("scheduled", GrowingScrapes, 1..MaxFailureCount)
    \/ \E count \in 1..MaxFailureCount : Raise("scheduled", count)
    \/ CancelSweep("scheduled")
    \/ SweepToggle(2)

SpecSweep == InitSweep /\ [][NextSweep]_vars

\* one sweep at a time, and /resend
NextHistory ==
    \/ SweepSteps("scheduled", Scrapes, {1})
    \/ \E u \in SweepLots : Resend(u)

SpecHistory == InitSweep /\ [][NextHistory]_vars

\* one sweep at a time over one page, and the sort order of the page changed
NextResort ==
    \/ SweepSteps("scheduled", Scrapes, {1})
    \/ SweepUpdateSort(1)

SpecResort == InitOnePage /\ [][NextResort]_vars

\* the sweep of the startup call and a sweep of the scheduler at the same
\* time (main.py:58-65, 75), on the one Monitor and its Parser
NextOverlap ==
    \E t \in Tasks : SweepSteps(t, GrowingScrapes, {1})

SpecOverlap == InitOnePage /\ [][NextOverlap]_vars

(***************************************************************************)
(* Properties of the change detection engine (Spec, SpecCancel).           *)
(***************************************************************************)
\* the known-URL set of page p in the items table r
HistoryOf(r, p) == {u \in Lots : r[u] = p}

\* the call has ended by returning True
ReturnedTrue == pc = "idle" /\ ret = "True"

\* the listing urls of s in order of first occurrence
RECURSIVE Distinct(_)
Distinct(s) ==
    IF s = <<>> THEN <<>>
    ELSE LET front == Distinct(SubSeq(s, 1, Len(s) - 1))
         IN  IF s[Len(s)] \in Range(front) THEN front ELSE Append(front, s[Len(s)])

C4_FetchFailureSkipsCycle ==
    last_page_load_failed
        => /\ rows = rows0
           /\ known_urls = {} /\ new_items = <<>>
           /\ notified = <<>> /\ delivered = {}
           /\ pc \in {"alert_fail", "idle"}
           /\ pc = "idle" => ret \in {"False", "cancelled"}

\* a failed check of a steady page has returned
C4_Witness ==
    /\ last_page_load_failed
    /\ pc = "idle" /\ ret = "False"
    /\ HistoryOf(rows0, url) # {}

\* C5: the step in which a scrape succeeds with zero listings leaves the
\* items table as it is, notifies nothing and ends the call.
C5_EmptyScrapeChangesNothing ==
    [][(pc = "fetch" /\ pc' # "fetch" /\ ret' # "cancelled"
            /\ ~last_page_load_failed' /\ current_items' = <<>>)
        => /\ rows' = rows
           /\ HistoryOf(rows', url) = HistoryOf(rows0, url)
           /\ notified' = <<>> /\ delivered' = {}
           /\ pc' = "idle"]_vars

\* an empty scrape of a steady page has been handled
C5_Witness ==
    /\ pc = "idle" /\ ret = "False"
    /\ ~last_page_load_failed
    /\ current_items = <<>>
    /\ HistoryOf(rows, url) # {}

C21_SeededAtMostOnce ==
    /\ t_seedings <= 1
    /\ t_seedings = 1 => t_seeded
    /\ t_last.seeded => t_seeded
    /\ (t_last.op = "construct" /\ t_last.seeded)
          => (t_pages = t_before /\ t_last.outcome = "ok")

\* the defaults were inserted once, every page was removed, and a later
\* construction with two default urls has left the page list empty
C21_Witness ==
    /\ t_last.op = "construct" /\ t_last.seeded
    /\ t_last.arg = <<(<<UrlA, UrlB>>)>>
    /\ t_seedings = 1
    /\ t_pages = <<>>

\* C22: add_page(url) ends in ValueError and leaves the page list as it
\* was if the url, stripped of surrounding whitespace, is empty, does not
\* start with http:// or https://, or is the url of a stored page;
\* otherwise it returns and the page list is the old one followed by one
\* enabled page with the stripped url and an id no page had.
C22_AddPageValidates ==
    t_last.op = "add_page" =>
        LET stripped == strip(t_last.arg[1])
        IN  IF \/ stripped.scheme \notin {"http://", "https://"}
               \/ stripped \in UrlsOf(t_before)
            THEN t_last.outcome = "ValueError" /\ t_pages = t_before
            ELSE /\ t_last.outcome = "ok"
                 /\ Len(t_pages) = Len(t_before) + 1
                 /\ SubSeq(t_pages, 1, Len(t_before)) = t_before
                 /\ t_pages[Len(t_pages)].url = stripped
                 /\ t_pages[Len(t_pages)].enabled
                 /\ t_pages[Len(t_pages)].id \notin IdsOf(t_before)

\* page a is stored and disabled; adding its url again, with whitespace
\* around it, was rejected
C22_Witness ==
    /\ t_last.op = "add_page" /\ t_last.outcome = "ValueError"
    /\ t_last.arg[1] = Str(TRUE, "https://", "a")
    /\ Len(t_pages) = 2
    /\ \E i \in 1..Len(t_pages) : t_pages[i].url = UrlA /\ ~t_pages[i].enabled

(***************************************************************************)
(* Properties of the sort order of a page (SpecSort).                      *)
(***************************************************************************)
\* the segments of the query other than order, as the query they make
\* (an empty segment left alone makes the empty query), and those for order
OtherSegments(u) == Join(SelectSeq(u.query, LAMBDA seg : seg.key # "order"))
OrderSegments(u) == SelectSeq(u.query, LAMBDA seg : seg.key = "order")

\* the url as urlunparse(urlparse(url)) writes it
Rewritten(u) == urlunparse(u, u.query)

\* update_sort has rewritten the order parameter of one page only, or,
\* for an order outside the fixed set, has raised ValueError and left
\* every page as it was
OnlyOrderRewritten ==
    t_last.op = "update_sort" =>
        LET page_id == t_last.arg[1]
            order == t_last.arg[2]
        IN  /\ (~NoOrder(order) /\ order \notin valid_orders)
                  => (t_last.outcome = "ValueError" /\ t_pages = t_before)
            /\ t_last.outcome # "ok" => t_pages = t_before
            /\ t_last.outcome = "ok" =>
                  /\ Len(t_pages) = Len(t_before)
                  /\ \A i \in 1..Len(t_pages) :
                        IF t_before[i].id # page_id THEN t_pages[i] = t_before[i]
                        ELSE /\ t_pages[i] = [t_before[i] EXCEPT !.url = t_pages[i].url]
                             /\ t_pages[i].url.scheme = t_before[i].url.scheme
                             /\ t_pages[i].url.rest = t_before[i].url.rest
                             /\ OtherSegments(t_pages[i].url) = OtherSegments(t_before[i].url)
                             /\ OrderSegments(t_pages[i].url) =
                                   IF NoOrder(order) THEN <<>>
                                   ELSE <<Seg("order", TRUE, order)>>

\* setting an order twice gives the url that setting it once gives
SetTwiceIsSetOnce ==
    \A u \in UrlsOf(t_pages), order \in valid_orders :
        _apply_order_to_url(_apply_order_to_url(u, order), order)
            = _apply_order_to_url(u, order)

C20_IdentityByUrl ==
    /\ \A x, y \in Listings :
          /\ x.url = y.url => (__eq__(x, y) /\ __hash__(x) = __hash__(y))
          /\ x.url # y.url => ~__eq__(x, y)
    /\ \A e1, e2 \in i_set : e1.url = e2.url => e1 = e2
    /\ i_last # <<>> =>
          IF \E e \in i_before : e.url = i_last[1].url
          THEN i_set = i_before
          ELSE i_set = i_before \cup {i_last[1]}

\* listings a and b, whose urls hash alike, are in the set; a came again
\* with another title, price and image and the set stayed as it was
C20_Witness ==
    /\ i_hash["a"] = i_hash["b"]
    /\ i_set = {[url |-> "a", title |-> "t1", price |-> "100", img_url |-> "img1"],
                 [url |-> "b", title |-> "t1", price |-> "100", img_url |-> "img1"]}
    /\ i_last = <<[url |-> "a", title |-> "t2", price |-> "200", img_url |-> "img2"]>>
    /\ i_before = i_set

(***************************************************************************)
(* Properties of the items table (SpecStore).                              *)
(***************************************************************************)
\* the source_url arguments of get_known_urls: a page, or none
KnownUrlQueries == Pages \cup {""}

RowsFor(t, u) == {r \in t : r.url = u}

\* the last listing of items with url u
LastFor(items, u) ==
    items[CHOOSE i \in 1..Len(items) :
             /\ items[i].url = u
             /\ \A j \in (i + 1)..Len(items) : items[j].url # u]

AlertReasons == [i \in 1..Len(d_alerts) |-> d_alerts[i].reason]

\* the send was rejected as unparsable markup (and not for a missing chat)
ParseRejected(send) ==
    /\ send.resp.kind = "bad_request"
    /\ "can't parse entities" \in send.resp.msg
    /\ "chat not found" \notin send.resp.msg

\* the sends made with the stripped caption and no parse mode
PlainSends ==
    {i \in 1..Len(sends) : sends[i].parse_mode = "None"
                             /\ sends[i].caption = _strip_html(caption0)}

\* C8 as stated: a delivery in which a caption was rejected as unparsable
\* ends with exactly one send of the stripped caption without parse mode.
C8_ExactlyOnePlainSend ==
    (d_pc = "done" /\ \E i \in 1..Len(sends) : ParseRejected(sends[i]))
        => Cardinality(PlainSends) = 1

\* the markup and the entities of the caption a parse-rejected send carried
\* are gone from every later send
MarkupFree(c) == \A k \in 1..Len(c) : c[k] \notin {"tag", "entity"}

\* C8 (amended): the fallback is applied once.  Up to and including the
\* first send rejected as unparsable, every send carries the caption as
\* passed in with parse mode HTML; every later send carries the stripped
\* caption (no tag, entities unescaped) with no parse mode; a further send
\* is made when the rejection came before the fifth attempt and none when
\* it came on the fifth; a second rejection ends the delivery with an alert
\* and no further send.
C8_FallbackAppliedOnce ==
    \A i \in 1..Len(sends) :
        /\ (ParseRejected(sends[i]) /\ sends[i].parse_mode = "HTML")
            => /\ \A j \in 1..i : sends[j].caption = caption0 /\ sends[j].parse_mode = "HTML"
               /\ \A j \in (i + 1)..Len(sends) :
                     /\ sends[j].parse_mode = "None"
                     /\ sends[j].caption = _strip_html(caption0)
                     /\ MarkupFree(sends[j].caption)
                     /\ Len(sends[j].caption) = Len(SelectSeq(caption0, LAMBDA x : x # "tag"))
               /\ (d_pc = "done" /\ i < MaxAttempts) => Len(sends) > i
               /\ i = MaxAttempts => Len(sends) = i
        /\ (ParseRejected(sends[i]) /\ sends[i].parse_mode = "None")
            => /\ Len(sends) = i
               /\ d_pc = "done"
               /\ AlertReasons = <<"bad_request">>

\* a delivery whose marked-up caption was rejected on the first attempt and
\* that then sent the stripped caption twice (a rate limit in between)
C8_Witness ==
    /\ d_pc = "done"
    /\ ParseRejected(sends[1])
    /\ Len(sends) = 3
    /\ caption0 = <<"text", "tag", "text", "tag", "entity">>
    /\ sends[3].caption = <<"text", "text", "char">>
    /\ sends[3].resp.kind = "ok"

\* C9: a delivery makes at most five transport send calls, the fallback
\* retry and the rate-limit retries included, and it ends.
C9_AtMostFiveSends ==
    /\ [](Len(sends) <= 5 /\ attempts = Len(sends))
    /\ <>(d_pc = "done")

\* a delivery that used all five attempts, one of them the fallback retry
C9_Witness ==
    /\ d_pc = "done"
    /\ Len(sends) = 5
    /\ fallback_applied
    /\ AlertReasons = <<"exhausted">>

\* C10: after a send that was rate limited with retry_after s on an attempt
\* before the fifth, the delivery sleeps s + 1 seconds and sends again to
\* the same chat with the same caption and parse mode; the signal itself
\* raises no alert.
C10_RateLimitBackoff ==
    \A i \in 1..Len(sends) :
        (sends[i].resp.kind = "retry_after" /\ i < MaxAttempts)
            => /\ d_pc # "done" \/ Len(sends) > i
               /\ (Len(sends) = i) => (d_alerts = <<>> /\ d_pc \in {"sleep", "loop"}
                                        /\ sleeping = sends[i].resp.retry_after + 1)
               /\ (Len(sends) > i)
                    => /\ sends[i + 1].slept = sends[i].resp.retry_after + 1
                       /\ sends[i + 1].chat = sends[i].chat
                       /\ sends[i + 1].caption = sends[i].caption
                       /\ sends[i + 1].parse_mode = sends[i].parse_mode

\* a delivery rate limited for 2 seconds on the stripped caption went on
\* after 3 seconds and succeeded
C10_Witness ==
    /\ d_pc = "done"
    /\ Len(sends) = 3
    /\ sends[2].resp.kind = "retry_after" /\ sends[2].resp.retry_after = 2
    /\ sends[2].parse_mode = "None"
    /\ sends[3].slept = 3
    /\ sends[3].resp.kind = "ok"

\* the critical alert of this delivery for the given reason
FailureAlert(reason) ==
    [chat |-> chat_id, item |-> item, reason |-> reason,
     to |-> ADMIN_CHAT_IDS, tag_user |-> TagUser]

\* the send did not end the delivery: it was rate limited, or it was the
\* first send rejected as unparsable
Retried(send) ==
    \/ send.resp.kind = "retry_after"
    \/ ParseRejected(send) /\ send.parse_mode = "HTML"

\* C12: a send that raises an unexpected exception is the last of its
\* delivery, and a delivery whose fifth send still asks for a retry makes
\* no sixth; in both cases the delivery ends with exactly one critical
\* alert, sent to the admin list, naming the chat, the listing and the
\* reason.
C12_FailureAlertedOnce ==
    /\ Len(sends) <= MaxAttempts
    /\ Len(d_alerts) <= 1
    /\ \A i \in 1..Len(sends) :
          sends[i].resp.kind = "error"
              => /\ Len(sends) = i /\ d_pc = "done"
                 /\ d_alerts = <<FailureAlert("unexpected")>>
    /\ (Len(sends) = MaxAttempts /\ Retried(sends[MaxAttempts]))
          => /\ d_pc = "done" => d_alerts = <<FailureAlert("exhausted")>>
             /\ d_pc # "done" => d_alerts = <<>>

\* five rate-limited sends of listing b to chat 2, then the alert
C12_Witness ==
    /\ d_pc = "done"
    /\ Len(sends) = MaxAttempts
    /\ \A i \in 1..Len(sends) : sends[i].resp.kind = "retry_after"
    /\ d_alerts = <<[chat |-> 2, item |-> "b", reason |-> "exhausted",
                     to |-> <<1, 2>>, tag_user |-> "@imprfctone"]>>

\* C13: every critical alert of a delivery is for exhausted attempts or an
\* unexpected exception.
C13_AlertOnlyExhaustedOrUnexpected ==
    \A i \in 1..Len(d_alerts) : d_alerts[i].reason \in {"exhausted", "unexpected"}

(***************************************************************************)
(* Properties of a notification and its deliveries (SpecNotify).           *)
(***************************************************************************)
\* the transport says the recipient cannot be reached
Unreachable(resp) ==
    \/ resp.kind = "forbidden"
    \/ resp.kind = "bad_request" /\ "chat not found" \in resp.msg

C14_AlertFanOutNeverRaises ==
    /\ a_pc # "raised"
    /\ Len(a_sent) <= Len(a_to)
    /\ \A k \in 1..Len(a_sent) : a_sent[k].chat = a_to[k]
    /\ a_pc = "send" => Len(a_sent) = a_idx - 1
    /\ a_pc = "returned" => Len(a_sent) = Len(a_to)

\* an alert to three admins whose first two sends failed has returned
C14_Witness ==
    /\ a_pc = "returned"
    /\ a_to = <<2, 1, 2>>
    /\ a_sent[1].outcome = "telegram_error"
    /\ a_sent[2].outcome = "other_error"
    /\ a_sent[3].outcome = "ok"

(***************************************************************************)
(* Properties of the media plan (SpecMedia).                               *)
(***************************************************************************)
\* the non-empty urls of the gallery of the listing
GalleryImages == {u \in Range(p_item.image_urls) : u # 0}

\* the number of images of the listing: its non-empty gallery urls, or its
\* img_url alone when the gallery has none
ImageCount ==
    IF GalleryImages = {} /\ p_item.img_url # 0 THEN 1
    ELSE Cardinality(GalleryImages)

\* C15: a send attempt makes exactly one transport call: send_media_group
\* for a listing with more than one image, send_photo for one image,
\* send_message for none.
C15_MediaPlan ==
    p_pc = "sent"
        => /\ Len(p_calls) = 1
           /\ p_calls[1].primitive =
                 IF ImageCount > 1 THEN "send_media_group"
                 ELSE IF ImageCount = 1 THEN "send_photo"
                 ELSE "send_message"

\* a listing whose gallery holds two urls and an empty entry went out as
\* an album
C15_Witness ==
    /\ p_pc = "sent"
    /\ p_item.image_urls = <<1, 0, 3>>
    /\ p_calls[1].primitive = "send_media_group"

\* C16: the album of a listing with n > 1 images has min(n, 10) entries,
\* the first min(n, 10) non-empty gallery urls in gallery order; the first
\* entry carries the caption and no other does.
C16_AlbumCap ==
    (p_pc = "sent" /\ ImageCount > 1)
        => LET entries == p_calls[1].entries
               shown == {entries[k].media : k \in 1..Len(entries)}
           IN  /\ Len(entries) = IF ImageCount > 10 THEN 10 ELSE ImageCount
               /\ \A k \in 1..Len(entries) : entries[k].caption <=> (k = 1)
               /\ \A k \in 1..(Len(entries) - 1) : entries[k].media < entries[k + 1].media
               /\ shown \subseteq GalleryImages
               /\ \A u \in GalleryImages \ shown : \A v \in shown : v < u

\* a gallery of 11 urls went out as an album of 10, the eleventh dropped
C16_Witness ==
    /\ p_pc = "sent"
    /\ Cardinality(GalleryImages) = 11
    /\ Len(p_calls[1].entries) = 10
    /\ p_calls[1].entries[10].media = 10

(***************************************************************************)
(* Properties of the per-chat locks (SpecLock).                            *)
(***************************************************************************)
\* the tasks whose delivery to chat c is under way: between its first send
\* attempt being started and the end of the pause that follows it
Delivering(c) ==
    {t \in Tasks : l_pc[t] \in {"send", "sleep", "pause"}
                     /\ ADMIN_CHAT_IDS[l_chat[t]] = c}

IsPrefix(s, t) == Len(s) <= Len(t) /\ \A i \in 1..Len(s) : s[i] = t[i]

Get(key) == get_setting(key, c_meta, c_default_interval)

\* a setter has just been called
SetCalled == c_last.op = "set"
SetKey == c_last.arg[1]
SetValue == c_last.arg[2]

\* C24: in every state get_check_interval() and the live
\* CHECK_INTERVAL_MINUTES are at least 3 minutes.
C24_IntervalAtLeastThree ==
    /\ Ge(Get("check_interval_minutes"), Num(MinInterval))
    /\ Ge(c_live["check_interval_minutes"], Num(MinInterval))

\* C25: every one of the five scalar settings has an upper bound: a setter
\* called with a value above every limit raises ValueError, so the value
\* persisted for a setting never reaches such a value.
C25_EverySettingBounded ==
    /\ (SetCalled /\ SetValue = Num(Huge)) => c_last.outcome = "ValueError"
    /\ \A key \in SettingKeys :
          c_meta[key] # <<>> => ~Ge(c_meta[key][1], Num(Huge))

\* C26: after a setter has returned, get_X() and the live field are the
\* value set; after a repository has been constructed on the storage,
\* get_X() and the live field are the value persisted for every setting
\* that has one.
C26_SetPersistsAndSyncs ==
    /\ (SetCalled /\ c_last.outcome = "ok") =>
          /\ Get(SetKey) = SetValue
          /\ c_live[SetKey] = SetValue
    /\ c_last.op \in {"start", "construct"} =>
          \A key \in SettingKeys :
             c_meta[key] # <<>> =>
                /\ Get(key) = c_meta[key][1]
                /\ c_live[key] = c_meta[key][1]

\* the values the setters are documented to refuse: an interval under 3,
\* a timeout that is not positive, negative retries, backoff or delay, and
\* a value above the documented maximum
OutOfBounds(key, v) ==
    CASE key = "check_interval_minutes" -> Lt(v, Num(3))
      [] key = "request_timeout" -> Le(v, Num(0)) \/ Gt(v, Num(300))
      [] key = "request_max_retries" -> Lt(v, Num(0)) \/ Gt(v, Num(20))
      [] key = "request_backoff_factor" -> Lt(v, Num(0)) \/ Gt(v, Num(10))
      [] key = "request_delay_seconds" -> Lt(v, Num(0)) \/ Gt(v, Num(60))

\* C27: a setter called with an out-of-bounds value raises ValueError and
\* leaves the persisted values and the live fields as they were.
C27_RejectedSetChangesNothing ==
    (SetCalled /\ OutOfBounds(SetKey, SetValue)) =>
        /\ c_last.outcome = "ValueError"
        /\ c_meta = c_before.meta
        /\ c_live = c_before.live

\* set_check_interval(2) refused while 5 minutes are persisted and live
C27_Witness ==
    /\ SetCalled
    /\ c_last.arg = <<"check_interval_minutes", Num(2)>>
    /\ c_last.outcome = "ValueError"
    /\ c_meta["check_interval_minutes"] = <<Num(5)>>
    /\ c_live["check_interval_minutes"] = Num(5)


(***************************************************************************)
(* Properties of the admin list (SpecAdmins).                              *)
(***************************************************************************)
\* what get_admin_ids() of the repository returns in this state
Admins == get_admin_ids(c_base_admin_ids, c_extras)

\* what it returned before the last call
AdminsBefore == get_admin_ids(c_base_admin_ids, c_before.extras)

AdminCalled == c_last.op \in {"add_admin", "remove_admin"}

AdminUnchanged ==
    /\ c_last.outcome = "ValueError"
    /\ c_extras = c_before.extras
    /\ c_live_admins = c_before.live_admins

\* C28: the admin list holds every admin of the environment and no id
\* twice; after a successful add_admin or remove_admin the live
\* ADMIN_CHAT_IDS is get_admin_ids(); adding an id of the list, removing
\* an admin of the environment and removing an id that is no extra admin
\* raise ValueError and change nothing.
C28_AdminList ==
    /\ Range(c_env_admins) \subseteq Range(Admins)
    /\ \A i, j \in 1..Len(Admins) : Admins[i] = Admins[j] => i = j
    /\ (AdminCalled /\ c_last.outcome = "ok") => c_live_admins = Admins
    /\ (AdminCalled /\ c_last.arg # <<>>) =>
          LET id == c_last.arg[1]
          IN  /\ (c_last.op = "add_admin" /\ id \in Range(AdminsBefore))
                    => AdminUnchanged
              /\ (c_last.op = "remove_admin" /\ id \in Range(c_env_admins))
                    => AdminUnchanged
              /\ (c_last.op = "remove_admin" /\ id \notin Range(c_before.extras))
                    => AdminUnchanged

\* admin 3 removed again after 2 and 3 were added to the admin 1 of the
\* environment given twice
C28_Witness ==
    /\ c_last = [op |-> "remove_admin", outcome |-> "ok", arg |-> <<3>>]
    /\ c_env_admins = <<1, 1>>
    /\ c_live_admins = <<1, 2>>


(***************************************************************************)
(* Properties of the fetcher (SpecFetch, SpecPacing).                      *)
(***************************************************************************)
\* the error state at the return of a get_page_content call matches what
\* the call returned
Matches(r) ==
    /\ r.returned = "content" => (r.error = <<>> /\ ~r.failed)
    /\ r.returned = "None" => (r.error # <<>> /\ r.failed)

\* C29: when a get_page_content call returns, on success last_error is
\* None and last_page_load_failed is false, on a timeout, a connection
\* error, an HTTP error status or another client error last_error is set
\* and last_page_load_failed is true.
C29_ErrorStateMatchesResult ==
    f_result # <<>> => Matches(f_result[1])

\* the same holds of every call during which no other call of the Parser
\* has recorded an error
UndisturbedResultMatches ==
    (f_result # <<>> /\ ~f_result[1].disturbed) => Matches(f_result[1])

\* an undisturbed call has returned content after a call that returned None
SuccessAfterFailure ==
    /\ f_result # <<>>
    /\ f_result[1].returned = "content"
    /\ f_result[1].after = "None"
    /\ ~f_result[1].disturbed

\* two requests to one domain that went through _apply_rate_limit start at
\* least the delay apart
StampedRequestsSpaced ==
    (f_pair # <<>> /\ f_pair[1].stamped_gap # <<>>) =>
        f_pair[1].stamped_gap[1] >= Delay

\* C30: two requests to one domain, of whatever kind and by whatever
\* tasks, start at least the delay apart.
C30_RequestsSpacedByDelay ==
    f_pair # <<>> => f_pair[1].gap >= Delay


(***************************************************************************)
(* Properties of the sweep (SpecSweep).                                    *)
(***************************************************************************)
\* the urls of the pages of a table that are enabled, in creation order
RECURSIVE EnabledUrls(_)
EnabledUrls(table) ==
    IF table = <<>> THEN <<>>
    ELSE IF Head(table).enabled
         THEN <<Head(table).url>> \o EnabledUrls(Tail(table))
         ELSE EnabledUrls(Tail(table))

\* C31: a sweep calls _check_url with the pages that were enabled when it
\* started, in creation order and each once, never with a page that was
\* disabled then; a sweep that was not cancelled has checked every one of
\* them, whatever the checks returned or raised.
C31_SweepChecksEnabledPagesOnce ==
    \A t \in Tasks :
       /\ w_pc[t] # "idle" => IsPrefix(w_checked[t], EnabledUrls(w_start[t]))
       /\ w_pc[t] \in {"loop", "fetch", "parse", "alert", "send"}
             => Len(w_checked[t]) = w_i[t]
       /\ w_pc[t] = "done" => w_checked[t] = EnabledUrls(w_start[t])

\* a sweep over two pages is over, the check of the first having failed
\* or raised
C31_Witness ==
    /\ w_pc["scheduled"] = "done"
    /\ w_checked["scheduled"] = <<"p1", "p2">>
    /\ w_failed["p1"] > 0
    /\ w_last # <<>>
    /\ w_last[1].page = "p2"

OwnFetchFailed == w_last # <<>> /\ w_last[1].own # "None"

PageReturned(op) == t_last.op = op /\ t_last.outcome = "ok"

\* the row of the page with this id in the rows t
RowOf(t, page_id) == CHOOSE r \in Range(t) : r.id = page_id

\* C33: toggle_page flips the enabled flag of the page with the id and
\* changes nothing else, and two toggle_page calls of one page in a row
\* leave the store as it was; get_enabled_pages() and get_enabled_urls()
\* return the pages whose flag is set, and no other; toggle_page,
\* update_label, remove_page and update_sort with an id that no page has
\* raise ValueError and leave the store as it was.
C33_ToggleFlipsOnePage ==
    /\ [](PageReturned("toggle_page")
            => /\ Len(t_pages) = Len(t_before)
               /\ \A i \in 1..Len(t_pages) :
                     IF t_before[i].id = t_last.arg[1]
                     THEN t_pages[i] = [t_before[i] EXCEPT !.enabled = ~t_before[i].enabled]
                     ELSE t_pages[i] = t_before[i])
    /\ [](/\ Range(get_enabled_pages(t_pages)) = {r \in Range(t_pages) : r.enabled}
          /\ Range(get_enabled_urls(t_pages)) = {r.url : r \in {q \in Range(t_pages) : q.enabled}}
          /\ Len(get_enabled_urls(t_pages)) = Cardinality({r \in Range(t_pages) : r.enabled}))
    /\ []((/\ t_last.op \in {"toggle_page", "update_label", "remove_page", "update_sort"}
           /\ t_last.arg[1] \notin IdsOf(t_before))
            => (t_last.outcome = "ValueError" /\ t_pages = t_before))
    /\ [][(/\ PageReturned("toggle_page")
           /\ t_last'.op = "toggle_page" /\ t_last'.outcome = "ok"
           /\ t_last'.arg = t_last.arg)
            => t_pages' = t_before]_vars

\* the second of two pages was switched on again, the first one being off
C33_Witness ==
    /\ PageReturned("toggle_page") /\ t_last.arg = <<2>>
    /\ Len(t_pages) = 2
    /\ ~t_pages[1].enabled /\ t_pages[2].enabled /\ ~t_before[2].enabled
    /\ Len(get_enabled_pages(t_pages)) = 1

FirstCheckAfterResort ==
    w_last # <<>> /\ w_last[1].outcome = "True" /\ w_last[1].fresh

NoListingNotifiedTwice == w_sent["startup"] \cap w_sent["scheduled"] = {}

\* a check that takes the page for failed is one whose own fetch failed
FailureFlagIsOwn == \A t \in Tasks : w_pc[t] = "alert" => w_own[t] # "None"

====
